---- MODULE Spec2Model ----
(***************************************************************************)
(* Model of the boyle::math interpolation kernel (Tiny-PnC):               *)
(*   PiecewiseLinearFunction1, PiecewiseCubicFunction1 (with its           *)
(*   tridiagonal solvers), PiecewiseLinearCurve and the helpers of         *)
(*   utils.hpp / vec2.hpp they are built on.                               *)
(*                                                                         *)
(* Numbers.  param_type / value_type are floating point in the source.     *)
(* The model computes in exact rational arithmetic: a number is a pair     *)
(* <<n, d>> in lowest terms with d > 0, and <<0, 0>> stands for every      *)
(* non-finite result (a division by zero).  Rounding is not modelled.      *)
(* Lengths are counted in grid ticks; the tolerance 1E-8 of the source is  *)
(* kDuplicateCriterion ticks, so that distances below, equal to and above  *)
(* the tolerance all occur among small integers.                           *)
(*                                                                         *)
(* A value (value_type T) is a tuple of numbers: <<y>> for a scalar,       *)
(* <<x, y>> for Vec2, <<x, y, z>> for Vec3.  The templates of the source   *)
(* are generic in T and so are the operators below.                        *)
(***************************************************************************)
EXTENDS Integers, Sequences, FiniteSets, TLC

VARIABLES
    policy,   \* BOYLE_CHECK_PARAMS of the build: 1 validated, 0 unvalidated
    kind,     \* the constructor called: "linear", "cubic", "periodic", "curve"
    args,     \* its arguments [ts, ys, b0, bf, s0]
    status,   \* "args" before the call, then "done", "thrown" or "aborted"
    err,      \* which validation threw ("" when none)
    log,      \* what the constructor did, in order
    obj,      \* the object's fields [ts, ys, ddys]
    q         \* the last query [op, arg, out, val]

vars == <<policy, kind, args, status, err, log, obj, q>>

---------------------------------------------------------------------------
(* Bounds of the model *)

MaxLen == 4           \* longest breakpoint / sample / anchor sequence drawn
MaxOrder == 4         \* largest `order` passed to derivative(t, order)
MaxBoundaryOrder == 3 \* largest BoundaryMode::order passed to a constructor

---------------------------------------------------------------------------
(* Exact arithmetic *)

Abs(x) == IF x < 0 THEN -x ELSE x

RECURSIVE Gcd(_, _)
Gcd(a, b) == IF b = 0 THEN a ELSE Gcd(b, a % b)

NonFinite == <<0, 0>>

Rat(n, d) ==
    IF d = 0 THEN NonFinite
    ELSE LET g == Gcd(Abs(n), Abs(d))
             s == IF d < 0 THEN -1 ELSE 1
         IN  <<(s * n) \div g, (s * d) \div g>>

R(n) == <<n, 1>>

Finite(a) == a[2] # 0

\* sums and products cancel common factors before they multiply
RAdd(a, b) == IF Finite(a) /\ Finite(b)
              THEN LET g == Gcd(a[2], b[2])
                   IN  Rat(a[1] * (b[2] \div g) + b[1] * (a[2] \div g),
                           (a[2] \div g) * b[2])
              ELSE NonFinite
RSub(a, b) == IF Finite(a) /\ Finite(b)
              THEN LET g == Gcd(a[2], b[2])
                   IN  Rat(a[1] * (b[2] \div g) - b[1] * (a[2] \div g),
                           (a[2] \div g) * b[2])
              ELSE NonFinite
RMul(a, b) == IF Finite(a) /\ Finite(b)
              THEN LET g1 == Gcd(Abs(a[1]), b[2])
                       g2 == Gcd(Abs(b[1]), a[2])
                   IN  Rat((a[1] \div g1) * (b[1] \div g2),
                           (a[2] \div g2) * (b[2] \div g1))
              ELSE NonFinite
RDiv(a, b) == IF Finite(a) /\ Finite(b) /\ b[1] # 0
              THEN RMul(a, Rat(b[2], b[1])) ELSE NonFinite
RNeg(a)    == IF Finite(a) THEN <<-a[1], a[2]>> ELSE NonFinite
RAbs(a)    == IF Finite(a) THEN <<Abs(a[1]), a[2]>> ELSE NonFinite
\* comparisons with a non-finite operand are false, as with NaN
RLt(a, b)  == Finite(a) /\ Finite(b) /\ a[1] * b[2] < b[1] * a[2]
RLe(a, b)  == Finite(a) /\ Finite(b) /\ a[1] * b[2] <= b[1] * a[2]
RGt(a, b)  == RLt(b, a)

\* std::sqrt / std::hypot on the perfect squares the inputs are drawn from
ISqrt(n) == CHOOSE r \in 0..n : r * r = n
RSqrt(a) == IF Finite(a) THEN <<ISqrt(a[1]), ISqrt(a[2])>> ELSE NonFinite

(* value_type: componentwise operations of Vec2 / Vec3 / scalars *)
VAdd(u, v)   == [i \in 1..Len(u) |-> RAdd(u[i], v[i])]
VSub(u, v)   == [i \in 1..Len(u) |-> RSub(u[i], v[i])]
VScale(v, r) == [i \in 1..Len(v) |-> RMul(v[i], r)]
VDiv(v, r)   == [i \in 1..Len(v) |-> RDiv(v[i], r)]

Zero(dim) == [i \in 1..dim |-> R(0)]

RECURSIVE SumSeq(_)
SumSeq(s) == IF Len(s) = 0 THEN R(0) ELSE RAdd(s[1], SumSeq(Tail(s)))

dot(u, v)        == SumSeq([i \in 1..Len(u) |-> RMul(u[i], v[i])])
euclideanSqr(v)  == dot(v, v)
euclidean(v)     == RSqrt(euclideanSqr(v))
euclideanTo(u, v) == euclidean(VSub(u, v))
normalized(v)    == VDiv(v, euclidean(v))
crossProj(u, v)  == RSub(RMul(u[1], v[2]), RMul(u[2], v[1]))
rotateHalfPi(v)  == <<RNeg(v[2]), v[1]>>

---------------------------------------------------------------------------
(* utils.hpp *)

kDuplicateCriterion == 2     \* 1E-8, in grid ticks
tolDefault == kDuplicateCriterion   \* the default `tol = 1E-8` of utils.hpp

lerp(start, end, ratio) ==
    VAdd(VScale(start, RSub(R(1), ratio)), VScale(end, ratio))

is_sorted(range) ==
    \A i \in 1..(Len(range) - 1) : ~RLt(range[i + 1], range[i])

\* hasDuplicates (Arithmetic): sort a copy, compare neighbours
hasDuplicates(range, tol) ==
    IF Len(range) < 2 THEN FALSE
    ELSE LET sorted == SortSeq(range, LAMBDA a, b : RLt(a, b))
         IN  \E i \in 1..(Len(sorted) - 1) :
                 RLt(RAbs(RSub(sorted[i + 1], sorted[i])), R(tol))

\* std::ranges::upper_bound with the comparator lhs - rhs < -tol:
\* binary search for the first element e with element - e < -tol.
\* Positions are iterator offsets (0-based); range[i + 1] is *(begin + i).
RECURSIVE upper_bound(_, _, _, _, _)
upper_bound(range, element, tol, first, len) ==
    IF len <= 0 THEN first
    ELSE LET half == len \div 2
             middle == first + half
         IN  IF RLt(RSub(element, range[middle + 1]), R(-tol))
             THEN upper_bound(range, element, tol, first, half)
             ELSE upper_bound(range, element, tol, middle + 1, len - half - 1)

\* nearestUpperElement (Arithmetic), for a range of at least one element
nearestUpperElement(range, element, tol) ==
    LET n == Len(range) IN
    IF n < 2 THEN (IF RLt(element, range[1]) THEN 0 ELSE n)
    ELSE IF RLt(RAbs(RSub(element, range[1])), R(tol)) THEN 1
    ELSE IF RLt(RAbs(RSub(element, range[n])), R(tol)) THEN n - 1
    ELSE upper_bound(range, element, tol, 0, n)

---------------------------------------------------------------------------
(* PiecewiseLinearFunction1 *)

\* The validation of the constructor, in the order of the source; "" when
\* every check passes.
LinearValidation(ts, ys) ==
    IF Len(ts) < 2 \/ Len(ys) < 2 THEN "size"
    ELSE IF Len(ts) # Len(ys) THEN "length"
    ELSE IF ~is_sorted(ts) THEN "sorted"
    ELSE IF hasDuplicates(ts, kDuplicateCriterion) THEN "duplicates"
    ELSE ""

\* an eval that holds the boundary sample outside [minT, maxT] instead of
\* extrapolating
LinearEvalClamped(o, t) ==
    LET pos == nearestUpperElement(o.ts, t, tolDefault)
        n   == Len(o.ts)
    IN  IF pos = 0 THEN o.ys[1]
        ELSE IF pos = n THEN o.ys[n]
        ELSE lerp(o.ys[pos], o.ys[pos + 1],
                  RDiv(RSub(t, o.ts[pos]), RSub(o.ts[pos + 1], o.ts[pos])))

\* m_ts[i], m_ys[i] of the source are o.ts[i + 1], o.ys[i + 1]
\* the branches of eval on the position pos the lookup returned
LinearEvalAt(o, t, pos) ==
    LET n   == Len(o.ts)
    IN  IF pos = 0
        THEN lerp(o.ys[1], o.ys[2],
                  RDiv(RSub(t, o.ts[1]), RSub(o.ts[2], o.ts[1])))
        ELSE IF pos = n
        THEN lerp(o.ys[pos], o.ys[pos - 1],
                  RDiv(RSub(t, o.ts[pos]), RSub(o.ts[pos - 1], o.ts[pos])))
        ELSE lerp(o.ys[pos], o.ys[pos + 1],
                  RDiv(RSub(t, o.ts[pos]), RSub(o.ts[pos + 1], o.ts[pos])))

LinearEval(o, t) == LinearEvalAt(o, t, nearestUpperElement(o.ts, t, tolDefault))

\* the branches of derivative on the position pos the lookup returned
LinearDerivativeAt(o, t, pos) ==
    LET n   == Len(o.ts)
    IN  IF pos = 0
        THEN VDiv(VSub(o.ys[2], o.ys[1]), RSub(o.ts[2], o.ts[1]))
        ELSE IF pos = n
        THEN VDiv(VSub(o.ys[pos], o.ys[pos - 1]), RSub(o.ts[pos], o.ts[pos - 1]))
        ELSE VDiv(VSub(o.ys[pos + 1], o.ys[pos]), RSub(o.ts[pos + 1], o.ts[pos]))

LinearDerivative(o, t) == LinearDerivativeAt(o, t, nearestUpperElement(o.ts, t, tolDefault))

\* std::lower_bound: binary search for the first element not less than
\* value; positions are iterator offsets (0-based)
RECURSIVE lower_bound(_, _, _, _)
lower_bound(range, value, first, len) ==
    IF len <= 0 THEN first
    ELSE LET half == len \div 2
             middle == first + half
         IN  IF RLt(range[middle + 1], value)
             THEN lower_bound(range, value, middle + 1, len - half - 1)
             ELSE lower_bound(range, value, first, half)

\* (left + right) * h * 0.5
Trapezoid(left, right, h) == VScale(VScale(VAdd(left, right), h), Rat(1, 2))

RECURSIVE VSum(_, _)
\* result += ... over the terms of a loop, starting from value_type{0.0}
VSum(terms, dim) ==
    IF terms = <<>> THEN [k \in 1..dim |-> R(0)]
    ELSE VAdd(VSum(SubSeq(terms, 1, Len(terms) - 1), dim), terms[Len(terms)])

\* a sign that stays +1 after the bounds were swapped
IntegralSignDropped(swap) == R(1)

\* int sign{1}; if (lower_bound > upper_bound) { swap; sign = -1; }
IntegralSign(swap) == IF swap THEN R(-1) ELSE R(1)

\* integral(lower_bound, upper_bound); m_ts[i] is o.ts[i + 1]
LinearIntegral(o, lower_bound_, upper_bound_) ==
    LET swap   == RGt(lower_bound_, upper_bound_)
        lo     == IF swap THEN upper_bound_ ELSE lower_bound_
        up     == IF swap THEN lower_bound_ ELSE upper_bound_
        sign   == IntegralSign(swap)
        size   == Len(o.ts)
        istart == lower_bound(o.ts, lo, 0, size)
        iend   == lower_bound(o.ts, up, 0, size)
        first  == Trapezoid(LinearEval(o, lo), o.ys[istart + 1],
                            RSub(o.ts[istart + 1], lo))
        loop   == [j \in 1..(iend - 1 - istart) |->
                      Trapezoid(o.ys[istart + j], o.ys[istart + j + 1],
                                RSub(o.ts[istart + j + 1], o.ts[istart + j]))]
        last   == Trapezoid(o.ys[iend], LinearEval(o, up), RSub(up, o.ts[iend]))
    IN  IF istart = size \/ iend = 0 \/ istart = iend
        THEN VScale(Trapezoid(LinearEval(o, lo), LinearEval(o, up), RSub(up, lo)),
                    sign)
        ELSE VScale(VAdd(VAdd(VAdd(Zero(Len(o.ys[1])), first),
                              VSum(loop, Len(o.ys[1]))), last), sign)

---------------------------------------------------------------------------
(* std::size_t.  A size or index is kept as a signed integer; a negative  *)
(* value x stands for the wrapped value 2^64 + x.  A std::vector of a     *)
(* wrapped size cannot be created (std::length_error), a wrapped index is *)
(* outside every vector.                                                   *)

AllocOk(n)    == n >= 0
InRange(i, n) == 0 <= i /\ i < n

\* the subscripts idxs applied to the vector called name, of size n
Acc(name, idxs, n) == {<<name, i, n>> : i \in idxs}
OutOfRange(accs)   == {a \in accs : ~InRange(a[2], a[3])}

---------------------------------------------------------------------------
(* PiecewiseCubicFunction1: TridiagonalMatrix *)

\* a forward sweep that leaves the diagonal as it is (u0 = a_diag)
TridiagonalLuDcmpNoPivotUpdate(a_low, a_diag, a_up, b) ==
    LET n == Len(a_diag)
        L1 == [i \in 1..(n - 1) |-> RDiv(a_low[i], a_diag[i])]
        Fwd[i \in 1..n] ==
            IF i = 1 THEN b[1]
            ELSE VSub(b[i], VScale(Fwd[i - 1], L1[i - 1]))
        Back[i \in 1..n] ==
            IF i = n THEN VDiv(Fwd[n], a_diag[n])
            ELSE VDiv(VSub(Fwd[i], VScale(Back[i + 1], a_up[i])), a_diag[i])
    IN  [i \in 1..n |-> Back[i]]

\* luDcmp of the matrix (a_low, a_diag, a_up) on the right-hand side b.
\* u0[i], l1[i], x[i] of the source are U0[i + 1], L1[i + 1], X[i + 1].
TridiagonalLuDcmp(a_low, a_diag, a_up, b) ==
    LET n == Len(a_diag)
        U0[i \in 1..n] ==
            IF i = 1 THEN a_diag[1]
            ELSE RSub(a_diag[i], RMul(RDiv(a_low[i - 1], U0[i - 1]), a_up[i - 1]))
        L1 == [i \in 1..(n - 1) |-> RDiv(a_low[i], U0[i])]
        Fwd[i \in 1..n] ==
            IF i = 1 THEN b[1]
            ELSE VSub(b[i], VScale(Fwd[i - 1], L1[i - 1]))
        Back[i \in 1..n] ==
            IF i = n THEN VDiv(Fwd[n], U0[n])
            ELSE VDiv(VSub(Fwd[i], VScale(Back[i + 1], a_up[i])), U0[i])
    IN  [i \in 1..n |-> Back[i]]

\* every subscript luDcmp evaluates, for a matrix of size ms
TridiagonalAccesses(ms) ==
    Acc("u0", {0, ms - 1} \cup 1..(ms - 2), ms)
    \cup Acc("a_diag", {0, ms - 1} \cup 1..(ms - 2), ms)
    \cup Acc("l1", {0, ms - 2} \cup 0..(ms - 2), ms - 1)
    \cup Acc("a_low", {0} \cup 1..(ms - 2), ms - 1)
    \cup Acc("u1", {ms - 2} \cup 0..(ms - 2), ms - 1)
    \cup Acc("x", {0, ms - 1} \cup 0..(ms - 1), ms)
    \cup Acc("b", {0} \cup 1..(ms - 1), ms)

---------------------------------------------------------------------------
(* PiecewiseCubicFunction1: PeriodicTridiagonalMatrix *)

\* luDcmp of the periodic matrix; l_bottom[i], u_top[i] are LB[i+1], UT[i+1]
PeriodicLuDcmp(a_bottom, a_low, a_diag, a_up, a_top, b) ==
    LET n == Len(a_diag)
        U0a[i \in 1..(n - 1)] ==
            IF i = 1 THEN a_diag[1]
            ELSE RSub(a_diag[i], RMul(RDiv(a_low[i - 1], U0a[i - 1]), a_up[i - 1]))
        L1 == [i \in 1..(n - 1) |-> RDiv(a_low[i], U0a[i])]
        UT[i \in 1..(n - 2)] ==
            IF i = 1 THEN a_top
            ELSE RMul(RNeg(L1[i - 1]), UT[i - 1])
        LB[i \in 1..(n - 2)] ==
            IF i = 1 THEN RDiv(a_bottom, U0a[1])
            ELSE RDiv(RMul(RNeg(LB[i - 1]), a_up[i - 1]), U0a[i])
        U0n == RSub(RSub(a_diag[n], RMul(L1[n - 1], a_up[n - 1])),
                    SumSeq([i \in 1..(n - 2) |-> RMul(LB[i], UT[i])]))
        Fwd[i \in 1..n] ==
            IF i = 1 THEN b[1]
            ELSE VSub(b[i], VScale(Fwd[i - 1], L1[i - 1]))
        dim == Len(b[1])
        Corr == [k \in 1..dim |->
                    SumSeq([i \in 1..(n - 2) |-> RMul(LB[i], Fwd[i][k])])]
        Xn  == VDiv(VSub(Fwd[n], Corr), U0n)
        Back[i \in 1..n] ==
            IF i = n THEN Xn
            ELSE IF i = n - 1
            THEN VDiv(VSub(Fwd[i], VScale(Xn, a_up[i])), U0a[i])
            ELSE VDiv(VSub(VSub(Fwd[i], VScale(Back[i + 1], a_up[i])),
                           VScale(Xn, UT[i])), U0a[i])
    IN  [i \in 1..n |-> Back[i]]

\* the vectors luDcmp creates, with their sizes, for a matrix of size ms
PeriodicAllocs(ms) ==
    <<<<"x", ms>>, <<"u0", ms>>, <<"l1", ms - 1>>,
      <<"l_bottom", ms - 2>>, <<"u_top", ms - 2>>>>

\* every subscript luDcmp evaluates, for a matrix of size ms
PeriodicAccesses(ms) ==
    Acc("u0", {0, ms - 2, ms - 1} \cup 1..(ms - 3), ms)
    \cup Acc("a_diag", {0, ms - 2, ms - 1} \cup 1..(ms - 3), ms)
    \cup Acc("l1", {0, ms - 3, ms - 2} \cup 0..(ms - 2), ms - 1)
    \cup Acc("a_low", {0, ms - 2} \cup 1..(ms - 3), ms - 1)
    \cup Acc("u1", {ms - 3, ms - 2} \cup 0..(ms - 4), ms - 1)
    \cup Acc("u_top", {0} \cup 0..(ms - 3), ms - 2)
    \cup Acc("l_bottom", {0} \cup 0..(ms - 3), ms - 2)
    \cup Acc("x", {0, ms - 1, ms - 2} \cup 0..(ms - 1), ms)
    \cup Acc("b", {0} \cup 1..(ms - 1), ms)

---------------------------------------------------------------------------
(* PiecewiseCubicFunction1: construction *)

\* A boundary mode is [order |-> unsigned, derivative |-> value_type].
\* The validation of the BoundaryMode constructor, in source order.
CubicValidation(ts, ys, b0, bf) ==
    IF Len(ts) < 2 \/ Len(ys) < 2 THEN "size"
    ELSE IF Len(ts) # Len(ys) THEN "length"
    ELSE IF ~is_sorted(ts) THEN "sorted"
    ELSE IF hasDuplicates(ts, kDuplicateCriterion) THEN "duplicates"
    ELSE IF b0.order = 0 \/ b0.order > 2 THEN "b0.order"
    ELSE IF bf.order = 0 \/ bf.order > 2 THEN "bf.order"
    ELSE ""

\* a periodic check that also rejects a difference equal to the tolerance
PeriodicValidationStrict(ts, ys) ==
    IF Len(ts) < 2 \/ Len(ys) < 2 THEN "size"
    ELSE IF ~RLt(RAbs(RSub(ys[1][1], ys[Len(ys)][1])), R(kDuplicateCriterion))
         THEN "periodic"
    ELSE ""

\* The validation of the periodic constructor, in source order.
PeriodicValidation(ts, ys) ==
    IF Len(ts) < 2 \/ Len(ys) < 2 THEN "size"
    ELSE IF Len(ts) # Len(ys) THEN "length"
    ELSE IF ~is_sorted(ts) THEN "sorted"
    ELSE IF hasDuplicates(ts, kDuplicateCriterion) THEN "duplicates"
    ELSE IF RGt(RAbs(RSub(ys[1][1], ys[Len(ys)][1])), R(kDuplicateCriterion))
         THEN "periodic"
    ELSE ""

\* the vectors the BoundaryMode constructor and its luDcmp create, in order
CubicAllocs(size) ==
    <<<<"hs", size - 1>>, <<"ds", size - 1>>, <<"a_diag", size>>, <<"b", size>>,
      <<"a_low", size - 1>>, <<"a_up", size - 1>>,
      <<"x", size>>, <<"u0", size>>, <<"l1", size - 1>>>>

\* every subscript the BoundaryMode constructor evaluates before luDcmp;
\* nt = m_ts.size(), ny = m_ys.size()
CubicAssemblyAccesses(nt, ny, b0, bf) ==
    LET size == nt
        loop == 1..(size - 2)
    IN  Acc("hs", {0} \cup loop \cup {i - 1 : i \in loop}
                  \cup (IF b0.order = 2 THEN {} ELSE {0})
                  \cup (IF bf.order = 2 THEN {} ELSE {size - 2}), size - 1)
        \cup Acc("m_ts", {0, 1} \cup loop \cup {i + 1 : i \in loop}, nt)
        \cup Acc("m_ys", {0, 1} \cup loop \cup {i + 1 : i \in loop}, ny)
        \cup Acc("ds", {0} \cup loop \cup {i - 1 : i \in loop}
                  \cup (IF b0.order = 2 THEN {} ELSE {0})
                  \cup (IF bf.order = 2 THEN {} ELSE {size - 2}), size - 1)
        \cup Acc("a_diag", {0, size - 1} \cup loop, size)
        \cup Acc("b", {0, size - 1} \cup loop, size)
        \cup Acc("a_up", {0}, size - 1)
        \cup Acc("a_low", {size - 2}, size - 1)

\* a boundary row that couples the end to its neighbour whatever the order
BoundaryCouplingHalf(bm) == Rat(1, 2)

\* the off-diagonal coefficient of a boundary row: a_up[0] for b0,
\* a_low[size - 2] for bf
BoundaryCoupling(bm) == IF bm.order = 2 THEN R(0) ELSE Rat(1, 2)

\* the system the BoundaryMode constructor assembles: [a_low, a_diag, a_up, b]
CubicSystem(ts, ys, b0, bf) ==
    LET size == Len(ts)
        hs == [i \in 1..(size - 1) |-> RSub(ts[i + 1], ts[i])]
        ds == [i \in 1..(size - 1) |-> VDiv(VSub(ys[i + 1], ys[i]), hs[i])]
    IN  [a_low  |-> [i \in 1..(size - 1) |->
                        IF i = size - 1
                        THEN BoundaryCoupling(bf)
                        ELSE hs[i]],
         a_diag |-> [i \in 1..size |->
                        IF i = 1 \/ i = size THEN R(1)
                        ELSE RMul(RAdd(hs[i], hs[i - 1]), R(2))],
         a_up   |-> [i \in 1..(size - 1) |->
                        IF i = 1
                        THEN BoundaryCoupling(b0)
                        ELSE hs[i]],
         b      |-> [i \in 1..size |->
                        IF i = 1
                        THEN (IF b0.order = 2 THEN b0.derivative
                              ELSE VDiv(VScale(VSub(ds[1], b0.derivative), R(3)),
                                        hs[1]))
                        ELSE IF i = size
                        THEN (IF bf.order = 2 THEN bf.derivative
                              ELSE VDiv(VScale(VSub(bf.derivative, ds[size - 1]),
                                               R(3)), hs[size - 1]))
                        ELSE VScale(VSub(ds[i], ds[i - 1]), R(6))]]

\* the vectors the periodic constructor creates before luDcmp, in order
PeriodicCtorAllocs(nt) ==
    <<<<"hs", nt - 1>>, <<"ds", nt - 1>>, <<"a_diag", nt - 1>>, <<"b", nt - 1>>,
      <<"a_low", nt - 2>>, <<"a_up", nt - 2>>>>

\* every subscript the periodic constructor evaluates outside luDcmp
PeriodicAssemblyAccesses(nt, ny) ==
    LET size == nt - 1
        loop == 1..(size - 1)
    IN  Acc("hs", {0, size - 1} \cup loop \cup {i - 1 : i \in loop}, size)
        \cup Acc("m_ts", {0, 1} \cup loop \cup {i + 1 : i \in loop}, nt)
        \cup Acc("m_ys", {0, 1} \cup loop \cup {i + 1 : i \in loop}, ny)
        \cup Acc("ds", {0, size - 1} \cup loop \cup {i - 1 : i \in loop}, size)
        \cup Acc("a_diag", {0} \cup loop, size)
        \cup Acc("b", {0} \cup loop, size)
        \cup Acc("m_ddys", {0}, size)

\* the periodic system: [a_bottom, a_low, a_diag, a_up, a_top, b]
PeriodicSystem(ts, ys) ==
    LET size == Len(ts) - 1
        hs == [i \in 1..size |-> RSub(ts[i + 1], ts[i])]
        ds == [i \in 1..size |-> VDiv(VSub(ys[i + 1], ys[i]), hs[i])]
    IN  [a_bottom |-> hs[size],
         a_low  |-> [i \in 1..(size - 1) |-> hs[i]],
         a_diag |-> [i \in 1..size |->
                        IF i = 1 THEN RMul(RAdd(hs[1], hs[size]), R(2))
                        ELSE RMul(RAdd(hs[i], hs[i - 1]), R(2))],
         a_up   |-> [i \in 1..(size - 1) |-> hs[i]],
         a_top  |-> hs[size],
         b      |-> [i \in 1..size |->
                        IF i = 1 THEN VScale(VSub(ds[1], ds[size]), R(6))
                        ELSE VScale(VSub(ds[i], ds[i - 1]), R(6))]]

---------------------------------------------------------------------------
(* cubic_interpolation.hpp: the cubic-spline segment formulas *)

\* value on a segment of width h at ratio in [0, 1], from the end values
\* and the end second derivatives
cuberp(start, end, ddstart, ddend, ratio, h) ==
    LET r1 == RSub(R(1), ratio)
        c0 == RSub(RMul(RMul(r1, r1), r1), r1)
        c1 == RSub(RMul(RMul(ratio, ratio), ratio), ratio)
    IN  VAdd(lerp(start, end, ratio),
             VScale(VAdd(VScale(ddstart, c0), VScale(ddend, c1)),
                    RDiv(RMul(h, h), R(6))))

\* first derivative on the segment
cuberpd(start, end, ddstart, ddend, ratio, h) ==
    LET r1 == RSub(R(1), ratio)
        c0 == RSub(R(1), RMul(R(3), RMul(r1, r1)))
        c1 == RSub(RMul(R(3), RMul(ratio, ratio)), R(1))
    IN  VAdd(VDiv(VSub(end, start), h),
             VScale(VAdd(VScale(ddstart, c0), VScale(ddend, c1)),
                    RDiv(h, R(6))))

---------------------------------------------------------------------------
(* PiecewiseCubicFunction1: queries *)

kFactors == <<Rat(-1, 3), Rat(-1, 6)>>

\* the branches of eval on the position pos the lookup returned
CubicEvalAt(o, t, pos) ==
    LET n   == Len(o.ts)
    IN  IF pos = 0
        THEN LET h == RSub(o.ts[2], o.ts[1])
                 ratio == RDiv(RSub(t, o.ts[1]), h)
             IN  VAdd(lerp(o.ys[1], o.ys[2], ratio),
                      VScale(VAdd(VScale(o.ddys[1], kFactors[1]),
                                  VScale(o.ddys[2], kFactors[2])),
                             RMul(RSub(t, o.ts[1]), h)))
        ELSE IF pos = n
        THEN LET h == RSub(o.ts[pos - 1], o.ts[pos])
                 ratio == RDiv(RSub(t, o.ts[pos]), h)
             IN  VAdd(lerp(o.ys[pos], o.ys[pos - 1], ratio),
                      VScale(VAdd(VScale(o.ddys[pos], kFactors[1]),
                                  VScale(o.ddys[pos - 1], kFactors[2])),
                             RMul(RSub(t, o.ts[pos]), h)))
        ELSE LET h == RSub(o.ts[pos + 1], o.ts[pos])
                 ratio == RDiv(RSub(t, o.ts[pos]), RSub(o.ts[pos + 1], o.ts[pos]))
             IN  cuberp(o.ys[pos], o.ys[pos + 1], o.ddys[pos], o.ddys[pos + 1],
                        ratio, h)

CubicEval(o, t) == CubicEvalAt(o, t, nearestUpperElement(o.ts, t, tolDefault))

\* the branches of derivative on the position pos the lookup returned
CubicDerivativeAt(o, t, pos) ==
    LET n   == Len(o.ts)
    IN  IF pos = 0
        THEN LET h == RSub(o.ts[2], o.ts[1])
             IN  VAdd(VDiv(VSub(o.ys[2], o.ys[1]), h),
                      VScale(VAdd(VScale(o.ddys[1], kFactors[1]),
                                  VScale(o.ddys[2], kFactors[2])), h))
        ELSE IF pos = n
        THEN LET h == RSub(o.ts[pos - 1], o.ts[pos])
             IN  VAdd(VDiv(VSub(o.ys[pos - 1], o.ys[pos]), h),
                      VScale(VAdd(VScale(o.ddys[pos], kFactors[1]),
                                  VScale(o.ddys[pos - 1], kFactors[2])), h))
        ELSE LET h == RSub(o.ts[pos + 1], o.ts[pos])
                 ratio == RDiv(RSub(t, o.ts[pos]), h)
             IN  cuberpd(o.ys[pos], o.ys[pos + 1], o.ddys[pos], o.ddys[pos + 1],
                         ratio, h)

CubicDerivative(o, t) == CubicDerivativeAt(o, t, nearestUpperElement(o.ts, t, tolDefault))

derivative2(o, t) ==
    LET pos == nearestUpperElement(o.ts, t, tolDefault)
    IN  IF pos = 0 THEN Zero(Len(o.ys[1]))
        ELSE IF pos = Len(o.ts) THEN Zero(Len(o.ys[1]))
        ELSE lerp(o.ddys[pos], o.ddys[pos + 1],
                  RDiv(RSub(t, o.ts[pos]), RSub(o.ts[pos + 1], o.ts[pos])))

\* a third derivative that keeps the quotient of the first / last segment
\* outside the breakpoints
derivative3Extended(o, t) ==
    LET pos == nearestUpperElement(o.ts, t, tolDefault)
        n   == Len(o.ts)
        k   == IF pos = 0 THEN 1 ELSE IF pos = n THEN n - 1 ELSE pos
    IN  VDiv(VSub(o.ddys[k + 1], o.ddys[k]), RSub(o.ts[k + 1], o.ts[k]))

derivative3(o, t) ==
    LET pos == nearestUpperElement(o.ts, t, tolDefault)
    IN  IF pos = 0 THEN Zero(Len(o.ys[1]))
        ELSE IF pos = Len(o.ts) THEN Zero(Len(o.ys[1]))
        ELSE VDiv(VSub(o.ddys[pos + 1], o.ddys[pos]),
                  RSub(o.ts[pos + 1], o.ts[pos]))

kFactor == Rat(-1, 24)

\* (left + right) * h * 0.5 + (ddleft + ddright) * h * h * h * kFactor
CubicPiece(left, right, ddleft, ddright, h) ==
    VAdd(Trapezoid(left, right, h),
         VScale(VScale(VScale(VScale(VAdd(ddleft, ddright), h), h), h), kFactor))

\* integral(lower_bound, upper_bound); m_ts[i] is o.ts[i + 1]
CubicIntegral(o, lower_bound_, upper_bound_) ==
    LET swap   == RGt(lower_bound_, upper_bound_)
        lo     == IF swap THEN upper_bound_ ELSE lower_bound_
        up     == IF swap THEN lower_bound_ ELSE upper_bound_
        sign   == IntegralSign(swap)
        size   == Len(o.ts)
        istart == lower_bound(o.ts, lo, 0, size)
        iend   == lower_bound(o.ts, up, 0, size)
        first  == CubicPiece(CubicEval(o, lo), o.ys[istart + 1],
                             derivative2(o, lo), o.ddys[istart + 1],
                             RSub(o.ts[istart + 1], lo))
        loop   == [j \in 1..(iend - 1 - istart) |->
                      CubicPiece(o.ys[istart + j], o.ys[istart + j + 1],
                                 o.ddys[istart + j], o.ddys[istart + j + 1],
                                 RSub(o.ts[istart + j + 1], o.ts[istart + j]))]
        last   == CubicPiece(o.ys[iend], CubicEval(o, up),
                             o.ddys[iend], derivative2(o, up),
                             RSub(up, o.ts[iend]))
    IN  IF istart = size \/ iend = 0 \/ istart = iend
        THEN VScale(Trapezoid(CubicEval(o, lo), CubicEval(o, up), RSub(up, lo)),
                    sign)
        ELSE VScale(VAdd(VAdd(VAdd(Zero(Len(o.ys[1])), first),
                              VSum(loop, Len(o.ys[1]))), last), sign)

---------------------------------------------------------------------------
(* Constructors.  Each operator returns the set of outcomes the call can   *)
(* have: [status, err, log, obj].  status is "done" (an object exists),    *)
(* "thrown" (std::invalid_argument left the constructor), "aborted" (the   *)
(* process was terminated: an exception inside a noexcept function, or a   *)
(* failed bounds assertion of the hardened standard library) or            *)
(* "undefined" (an out-of-range access the build did not trap).  log lists *)
(* the derived arrays in the order the constructor creates and fills them. *)

NoObj == [ts |-> <<>>, ys |-> <<>>, ddys |-> <<>>]

Outcome(st, e, lg, o) == [status |-> st, err |-> e, log |-> lg, obj |-> o]

\* an out-of-range subscript: trapped or not, depending on the build
UndefinedOutcomes(lg) ==
    {Outcome("aborted", "", lg, NoObj), Outcome("undefined", "", lg, NoObj)}

RECURSIVE AllocLog(_)
\* the allocations of the list that are reached: up to the first that fails
AllocLog(allocs) ==
    IF allocs = <<>> THEN <<>>
    ELSE IF ~AllocOk(allocs[1][2]) THEN <<<<"alloc", allocs[1][1], allocs[1][2]>>>>
    ELSE <<<<"alloc", allocs[1][1], allocs[1][2]>>>> \o AllocLog(Tail(allocs))

AllocsOk(allocs) == \A i \in 1..Len(allocs) : AllocOk(allocs[i][2])

LinearCtor(p, ts, ys) ==
    LET v == IF p = 1 THEN LinearValidation(ts, ys) ELSE ""
    IN  IF v # "" THEN {Outcome("thrown", v, <<>>, NoObj)}
        ELSE {Outcome("done", "", <<>>, [ts |-> ts, ys |-> ys, ddys |-> <<>>])}

CubicCtor(p, ts, ys, b0, bf) ==
    LET v == IF p = 1 THEN CubicValidation(ts, ys, b0, bf) ELSE ""
        size   == Len(ts)
        allocs == CubicAllocs(size)
        accs   == CubicAssemblyAccesses(size, Len(ys), b0, bf)
                      \cup TridiagonalAccesses(size)
        sys    == CubicSystem(ts, ys, b0, bf)
    IN  IF v # "" THEN {Outcome("thrown", v, <<>>, NoObj)}
        ELSE IF ~AllocsOk(allocs)
        THEN {Outcome("aborted", "", AllocLog(allocs), NoObj)}
        ELSE IF OutOfRange(accs) # {}
        THEN UndefinedOutcomes(AllocLog(SubSeq(allocs, 1, 4)))
        ELSE {Outcome("done", "",
                      AllocLog(allocs) \o <<<<"compute", "m_ddys">>>>,
                      [ts |-> ts, ys |-> ys,
                       ddys |-> TridiagonalLuDcmp(sys.a_low, sys.a_diag,
                                                  sys.a_up, sys.b)])}

PeriodicCtor(p, ts, ys) ==
    LET v == IF p = 1 THEN PeriodicValidation(ts, ys) ELSE ""
        nt     == Len(ts)
        ms     == nt - 1
        first  == SubSeq(PeriodicCtorAllocs(nt), 1, 4)
        allocs == PeriodicCtorAllocs(nt) \o PeriodicAllocs(ms)
        sys    == PeriodicSystem(ts, ys)
        ddys   == PeriodicLuDcmp(sys.a_bottom, sys.a_low, sys.a_diag,
                                 sys.a_up, sys.a_top, sys.b)
    IN  IF v # "" THEN {Outcome("thrown", v, <<>>, NoObj)}
        ELSE IF ~AllocsOk(first)
        THEN {Outcome("aborted", "", AllocLog(first), NoObj)}
        ELSE IF OutOfRange(PeriodicAssemblyAccesses(nt, Len(ys))) # {}
        THEN UndefinedOutcomes(AllocLog(first))
        ELSE IF ~AllocsOk(allocs)
        THEN {Outcome("aborted", "", AllocLog(allocs), NoObj)}
        ELSE IF OutOfRange(PeriodicAccesses(ms)) # {}
        THEN UndefinedOutcomes(AllocLog(allocs))
        ELSE {Outcome("done", "",
                      AllocLog(allocs) \o <<<<"compute", "m_ddys">>>>,
                      [ts |-> ts, ys |-> ys, ddys |-> Append(ddys, ddys[1])])}

---------------------------------------------------------------------------
(* utils.hpp: nearestUpperElement for Vec ranges *)

\* The position (iterator offset) of the first anchor nearest to element.
\* The source compares euclidean distances with <; the model compares
\* their squares, which order the same way.
nearestPosition(range, element) ==
    LET d2(i) == euclideanSqr(VSub(element, range[i]))
    IN  (CHOOSE i \in 1..Len(range) :
            /\ \A j \in 1..(i - 1) : RLt(d2(i), d2(j))
            /\ \A j \in (i + 1)..Len(range) : ~RLt(d2(j), d2(i))) - 1

nearestUpperElementVec(range, element, tol) ==
    LET n   == Len(range)
        pos == nearestPosition(range, element)
    IN  IF n < 2 THEN 0
        ELSE IF pos = 0
        THEN (IF RLt(dot(VSub(range[2], range[1]), VSub(element, range[1])),
                     R(-tol))
              THEN 0 ELSE 1)
        ELSE IF pos = n - 1
        THEN (IF RLt(dot(VSub(range[n - 1], range[n]), VSub(element, range[n])),
                     R(-tol))
              THEN n ELSE n - 1)
        ELSE (IF RLt(dot(VSub(range[pos + 2], range[pos + 1]),
                         VSub(element, range[pos + 1])), R(-tol))
              THEN pos ELSE pos + 1)

---------------------------------------------------------------------------
(* PiecewiseLinearCurve.  The curve holds m_vec_of_s, a linear interpolant *)
(* of the anchor points over the arc lengths: obj.ts are the arc lengths,  *)
(* obj.ys the anchor points.                                               *)

\* the default argument s0 = 0.0; an omitted s0 is <<>>
S0Of(s0) == IF s0 = <<>> THEN R(0) ELSE s0[1]

RECURSIVE ArcLengthsSquared(_, _, _)
\* cumulative squared distances in place of distances
ArcLengthsSquared(anchor_points, s0, i) ==
    IF i <= 1 THEN <<s0>>
    ELSE LET pre == ArcLengthsSquared(anchor_points, s0, i - 1)
         IN  Append(pre, RAdd(pre[i - 1],
                              euclideanSqr(VSub(anchor_points[i],
                                                anchor_points[i - 1]))))

RECURSIVE ArcLengths(_, _, _)
\* arc_lengths[0 .. i-1] of the constructor
ArcLengths(anchor_points, s0, i) ==
    IF i <= 1 THEN <<s0>>
    ELSE LET pre == ArcLengths(anchor_points, s0, i - 1)
         IN  Append(pre, RAdd(pre[i - 1],
                              euclideanTo(anchor_points[i], anchor_points[i - 1])))

CurveCtor(p, anchor_points, s0) ==
    LET size == Len(anchor_points)
        alloc == <<<<"alloc", "arc_lengths", size>>>>
        accs == Acc("arc_lengths", {0} \cup 1..(size - 1) \cup 0..(size - 2), size)
        arc  == ArcLengths(anchor_points, S0Of(s0), size)
        lg   == alloc \o <<<<"compute", "arc_lengths">>>>
    IN  IF p = 1 /\ size < 2 THEN {Outcome("thrown", "size", <<>>, NoObj)}
        ELSE IF OutOfRange(accs) # {} THEN UndefinedOutcomes(alloc)
        ELSE {Outcome(r.status, r.err, lg \o r.log, r.obj) :
                  r \in LinearCtor(p, arc, anchor_points)}

minT(o)  == o.ts[1]
maxT(o)  == o.ts[Len(o.ts)]
front(o) == o.ys[1]
back(o)  == o.ys[Len(o.ys)]

tangent(o, s) == normalized(LinearDerivative(o, s))

\* process(pos, ratio): [val, diff, diff2]; anchor_points[pos] is o.ys[pos + 1]
process(o, pos, ratio) ==
    [val   |-> lerp(o.ys[pos], o.ys[pos + 1], ratio),
     diff  |-> VSub(o.ys[pos + 1], o.ys[pos]),
     diff2 |-> VSub(VDiv(VSub(o.ys[pos + 1], o.ys[pos]),
                         RSub(o.ts[pos + 1], o.ts[pos])),
                    VDiv(VSub(o.ys[pos], o.ys[pos - 1]),
                         RSub(o.ts[pos], o.ts[pos - 1])))]

\* a sign rule that gives +1 when diff x diff2 is 0
SignedNormalTiePositive(diff, diff2) ==
    VScale(normalized(rotateHalfPi(diff)),
           IF RLt(crossProj(diff, diff2), R(0)) THEN R(-1) ELSE R(1))

\* diff.rotateHalfPi().normalized() * (diff.crossProj(diff2) > 0 ? 1 : -1)
SignedNormal(diff, diff2) ==
    VScale(normalized(rotateHalfPi(diff)),
           IF RGt(crossProj(diff, diff2), R(0)) THEN R(1) ELSE R(-1))

\* the front and back branches shared by eval(s, l), normal and inverse:
\* [diff, diff2] from the first / last three anchors
FrontFrame(o) ==
    [diff  |-> VSub(o.ys[2], o.ys[1]),
     diff2 |-> VSub(VDiv(VSub(o.ys[3], o.ys[2]), RSub(o.ts[3], o.ts[2])),
                    VDiv(VSub(o.ys[2], o.ys[1]), RSub(o.ts[2], o.ts[1])))]

BackFrame(o) ==
    LET size == Len(o.ts)
    IN  [diff  |-> VSub(o.ys[size], o.ys[size - 1]),
         diff2 |-> VSub(VDiv(VSub(o.ys[size], o.ys[size - 1]),
                             RSub(o.ts[size], o.ts[size - 1])),
                        VDiv(VSub(o.ys[size - 1], o.ys[size - 2]),
                             RSub(o.ts[size - 1], o.ts[size - 2])))]

\* the subscripts of anchor_points a branch on pos evaluates
FrameAccesses(pos, size) ==
    IF pos < 2 THEN Acc("anchor_points", {0, 1, 2}, size)
    ELSE IF pos = size
    THEN Acc("anchor_points", {size - 1, size - 2, size - 3}, size)
    ELSE Acc("anchor_points", {pos, pos - 1, pos - 2}, size)

QueryUndefined == {[out |-> "aborted", val |-> <<>>], [out |-> "undefined", val |-> <<>>]}

\* eval(s, l): the set of outcomes [out, val]
CurveEvalSL(o, s, l) ==
    LET size == Len(o.ts)
        pos  == nearestUpperElement(o.ts, s, tolDefault)
    IN  IF OutOfRange(FrameAccesses(pos, size)) # {} THEN QueryUndefined
        ELSE IF pos < 2
        THEN LET ratio == RDiv(RSub(s, o.ts[1]), RSub(o.ts[2], o.ts[1]))
                 f == FrontFrame(o)
             IN  {[out |-> "ok",
                   val |-> VAdd(lerp(o.ys[1], o.ys[2], ratio),
                                VScale(SignedNormal(f.diff, f.diff2), l))]}
        ELSE IF pos = size
        THEN LET ratio == RDiv(RSub(s, o.ts[size]),
                               RSub(o.ts[size - 1], o.ts[size]))
                 f == BackFrame(o)
             IN  {[out |-> "ok",
                   val |-> VAdd(lerp(o.ys[size], o.ys[size - 1], ratio),
                                VScale(SignedNormal(f.diff, f.diff2), l))]}
        ELSE LET ratio == RDiv(RSub(s, o.ts[pos]), RSub(o.ts[pos + 1], o.ts[pos]))
                 f == process(o, pos, ratio)
             IN  {[out |-> "ok",
                   val |-> VAdd(f.val, VScale(SignedNormal(f.diff, f.diff2), l))]}

\* inverse(point): the set of outcomes [out, val] with val = <<s, l>>
inverse(o, point) ==
    LET size == Len(o.ys)
        pos  == nearestUpperElementVec(o.ys, point, tolDefault)
        SL(base, r, f) ==
            <<RAdd(base, dot(r, normalized(f.diff))),
              dot(r, SignedNormal(f.diff, f.diff2))>>
    IN  IF OutOfRange(FrameAccesses(pos, size)) # {} THEN QueryUndefined
        ELSE IF pos < 2
        THEN {[out |-> "ok",
               val |-> SL(o.ts[1], VSub(point, o.ys[1]), FrontFrame(o))]}
        ELSE IF pos = size
        THEN {[out |-> "ok",
               val |-> SL(o.ts[size], VSub(point, o.ys[size]), BackFrame(o))]}
        ELSE {[out |-> "ok",
               val |-> SL(o.ts[pos], VSub(point, o.ys[pos]), process(o, pos, R(0)))]}

\* inverse(point, start_s, end_s): the search bounds [istart, iend] after
\* the swap; istart = -1 stands for the wrapped std::size_t
InverseBounds(o, start_s, end_s) ==
    LET lo == IF RGt(start_s, end_s) THEN end_s ELSE start_s
        up == IF RGt(start_s, end_s) THEN start_s ELSE end_s
    IN  [istart |-> nearestUpperElement(o.ts, lo, tolDefault) - 1,
         iend   |-> nearestUpperElement(o.ts, up, tolDefault)]

\* the subscripts of anchor_points inverse(point, start_s, end_s) evaluates:
\* the search over [istart, iend) and the branch taken on pos
RangedAccesses(istart, iend, pos, size) ==
    Acc("anchor_points", IF iend - istart < 2 THEN {} ELSE istart..(iend - 1), size)
    \cup (IF pos < istart + 2 /\ size > istart + 2
          THEN Acc("anchor_points", {istart, istart + 1, istart + 2}, size)
          ELSE IF pos = iend
          THEN Acc("anchor_points", {iend - 1, iend - 2, iend - 3}, size)
          ELSE Acc("anchor_points", {pos, pos - 1, pos - 2}, size))

\* inverse(point, start_s, end_s): the set of outcomes [out, val]
inverseRanged(o, point, start_s, end_s) ==
    LET size   == Len(o.ys)
        bnd    == InverseBounds(o, start_s, end_s)
        istart == bnd.istart
        iend   == bnd.iend
        SL(base, r, f) ==
            <<RAdd(base, dot(r, normalized(f.diff))),
              dot(r, SignedNormal(f.diff, f.diff2))>>
    IN  IF istart < 0 \/ iend < istart THEN QueryUndefined
        ELSE
        LET pos == istart + nearestUpperElementVec(SubSeq(o.ys, istart + 1, iend),
                                                   point, tolDefault)
        IN  IF OutOfRange(RangedAccesses(istart, iend, pos, size)) # {}
            THEN QueryUndefined
            ELSE IF pos < istart + 2 /\ size > istart + 2
            THEN {[out |-> "ok",
                   val |-> SL(o.ts[istart + 1], VSub(point, o.ys[istart + 1]),
                              [diff  |-> VSub(o.ys[istart + 2], o.ys[istart + 1]),
                               diff2 |-> VSub(VDiv(VSub(o.ys[istart + 3], o.ys[istart + 2]),
                                                   RSub(o.ts[istart + 3], o.ts[istart + 2])),
                                              VDiv(VSub(o.ys[istart + 2], o.ys[istart + 1]),
                                                   RSub(o.ts[istart + 2], o.ts[istart + 1])))])]}
            ELSE IF pos = iend
            THEN {[out |-> "ok",
                   val |-> SL(o.ts[iend], VSub(point, o.ys[iend]),
                              [diff  |-> VSub(o.ys[iend], o.ys[iend - 1]),
                               diff2 |-> VSub(VDiv(VSub(o.ys[iend], o.ys[iend - 1]),
                                                   RSub(o.ts[iend], o.ts[iend - 1])),
                                              VDiv(VSub(o.ys[iend - 1], o.ys[iend - 2]),
                                                   RSub(o.ts[iend - 1], o.ts[iend - 2])))])]}
            ELSE {[out |-> "ok",
                   val |-> SL(o.ts[pos], VSub(point, o.ys[pos]), process(o, pos, R(0)))]}

---------------------------------------------------------------------------
(* The arguments the model draws *)

\* spacing of consecutive breakpoints: descending, below the tolerance,
\* equal to the tolerance, above the tolerance
DeltaSet == {-1, kDuplicateCriterion - 1, kDuplicateCriterion,
             kDuplicateCriterion + 1}

RECURSIVE PrefixSum(_, _)
PrefixSum(ds, i) == IF i = 0 THEN 0 ELSE ds[i] + PrefixSum(ds, i - 1)

\* the breakpoints starting at 0 with the spacings ds
TsOf(ds) == [i \in 1..(Len(ds) + 1) |-> R(PrefixSum(ds, i - 1))]

TsSet == {<<>>} \cup
         UNION {{TsOf(ds) : ds \in [1..n -> DeltaSet]} : n \in 0..(MaxLen - 1)}

\* scalar samples: a fixed zigzag whose last sample is the first plus d
BackDiffs == {0, kDuplicateCriterion, kDuplicateCriterion + 1}
YsOf(ny, d) ==
    [i \in 1..ny |-> <<R(IF i = ny /\ ny >= 2 THEN 3 + d ELSE (3 * i) % 7)>>]

YsSet(k, nt) ==
    {YsOf(ny, d) : ny \in {nt - 1, nt, nt + 1} \cap 0..MaxLen,
                   d \in IF k = "periodic" THEN BackDiffs
                         ELSE {kDuplicateCriterion + 1}}

Mode(order) ==
    [order |-> order, derivative |-> <<R(IF order = 1 THEN 1 ELSE 0)>>]

NoMode == Mode(2)

\* a boundary of order 2 with a second derivative other than 0
FixedSecond(d) == [order |-> 2, derivative |-> <<R(d)>>]

BoundaryPairs ==
    {<<Mode(a), Mode(b)>> : a \in {1, 2}, b \in 0..MaxBoundaryOrder}
    \cup {<<Mode(a), Mode(2)>> : a \in 0..MaxBoundaryOrder}
    \cup {<<FixedSecond(3), Mode(1)>>, <<Mode(1), FixedSecond(-3)>>,
          <<FixedSecond(3), FixedSecond(-3)>>}

Args(ts, ys, b0, bf, s0) ==
    [ts |-> ts, ys |-> ys, b0 |-> b0, bf |-> bf, s0 |-> s0]

ArgSet(k) ==
    UNION {{Args(ts, ys, m[1], m[2], <<>>) :
                ys \in YsSet(k, Len(ts)),
                m \in IF k = "cubic" THEN BoundaryPairs ELSE {<<NoMode, NoMode>>}} :
           ts \in TsSet}

NoQuery == [op |-> "none", arg |-> <<>>, out |-> "none", val |-> <<>>]

Init ==
    /\ policy \in {0, 1}
    /\ kind \in {"linear", "cubic", "periodic"}
    /\ args \in ArgSet(kind)
    /\ status = "args"
    /\ err = ""
    /\ log = <<>>
    /\ obj = NoObj
    /\ q = NoQuery

---------------------------------------------------------------------------
(* Actions *)

Finish(r) ==
    /\ status' = r.status
    /\ err' = r.err
    /\ log' = r.log
    /\ obj' = r.obj
    /\ UNCHANGED <<policy, kind, args, q>>

ConstructLinear ==
    /\ status = "args" /\ kind = "linear"
    /\ \E r \in LinearCtor(policy, args.ts, args.ys) : Finish(r)

ConstructCubic ==
    /\ status = "args" /\ kind = "cubic"
    /\ \E r \in CubicCtor(policy, args.ts, args.ys, args.b0, args.bf) : Finish(r)

ConstructPeriodic ==
    /\ status = "args" /\ kind = "periodic"
    /\ \E r \in PeriodicCtor(policy, args.ts, args.ys) : Finish(r)

\* The queries are const member functions: they leave the object alone, so
\* a behaviour asks one and records it in q.  They are asked of objects
\* whose sequences satisfy the constructor's checks.
Queryable ==
    /\ status = "done" /\ q.op = "none"
    /\ LinearValidation(obj.ts, obj.ys) = ""

\* the parameters asked: every breakpoint and the parameters around it at
\* distances below, equal to and above the tolerance
MaxDelta == kDuplicateCriterion + 1

QueryTs(o) ==
    {RAdd(o.ts[i], R(d)) : i \in 1..Len(o.ts), d \in (0 - MaxDelta)..MaxDelta}

Answer(op, arg, out, val) ==
    /\ q' = [op |-> op, arg |-> arg, out |-> out, val |-> val]
    /\ UNCHANGED <<policy, kind, args, status, err, log, obj>>

Eval ==
    /\ Queryable
    /\ \E t \in QueryTs(obj) :
          Answer("eval", <<t>>, "ok",
                 IF kind = "linear" THEN LinearEval(obj, t) ELSE CubicEval(obj, t))

Derivative ==
    /\ Queryable
    /\ \E t \in QueryTs(obj) :
          Answer("derivative", <<t>>, "ok",
                 IF kind = "linear" THEN LinearDerivative(obj, t)
                 ELSE CubicDerivative(obj, t))

\* derivative(t, order): [out, val]; the check of `order` exists only in the
\* validated build, and the cubic switch ends in std::unreachable()
LinearDerivativeOrder(p, o, t, order) ==
    IF p = 1 /\ order # 1
    THEN {[out |-> "thrown", val |-> <<>>]}
    ELSE {[out |-> "ok", val |-> LinearDerivative(o, t)]}

\* a derivative(t, order) that accepts every order as the first
CubicDerivativeOrderLenient(p, o, t, order) ==
    {[out |-> "ok", val |-> CubicDerivative(o, t)]}

CubicDerivativeOrder(p, o, t, order) ==
    IF p = 1 /\ (order < 1 \/ order > 3)
    THEN {[out |-> "thrown", val |-> <<>>]}
    ELSE IF order = 1 THEN {[out |-> "ok", val |-> CubicDerivative(o, t)]}
    ELSE IF order = 2 THEN {[out |-> "ok", val |-> derivative2(o, t)]}
    ELSE IF order = 3 THEN {[out |-> "ok", val |-> derivative3(o, t)]}
    ELSE {[out |-> "aborted", val |-> <<>>], [out |-> "undefined", val |-> <<>>]}

DerivativeOrder ==
    /\ Queryable
    /\ \E i \in 1..Len(obj.ts), order \in 0..MaxOrder :
          \E r \in (IF kind = "linear"
                    THEN LinearDerivativeOrder(policy, obj, obj.ts[i], order)
                    ELSE CubicDerivativeOrder(policy, obj, obj.ts[i], order)) :
              Answer("derivative_order", <<obj.ts[i], R(order)>>, r.out, r.val)

Next ==
    \/ ConstructLinear
    \/ ConstructCubic
    \/ ConstructPeriodic
    \/ Eval
    \/ Derivative
    \/ DerivativeOrder

Spec == Init /\ [][Next]_vars

---------------------------------------------------------------------------
(* Specification SpecCurve: PiecewiseLinearCurve<Vec2> *)

\* steps between consecutive anchors, all of integer length: shorter than
\* the tolerance, equal to it, and two longer ones at a right angle
StepSet == {<<kDuplicateCriterion - 1, 0>>, <<kDuplicateCriterion, 0>>,
            <<6, 8>>, <<-8, 6>>}

RECURSIVE VecPrefixSum(_, _)
VecPrefixSum(steps, i) ==
    IF i = 0 THEN <<0, 0>>
    ELSE LET pre == VecPrefixSum(steps, i - 1)
         IN  <<pre[1] + steps[i][1], pre[2] + steps[i][2]>>

\* the anchors starting at the origin with the given steps
AnchorsOf(steps) ==
    [i \in 1..(Len(steps) + 1) |->
        <<R(VecPrefixSum(steps, i - 1)[1]), R(VecPrefixSum(steps, i - 1)[2])>>]

AnchorSet == {<<>>} \cup
    UNION {{AnchorsOf(st) : st \in [1..n -> StepSet]} : n \in 0..(MaxLen - 1)}

S0Set == {<<>>, <<R(5)>>}

InitCurve ==
    /\ policy \in {0, 1}
    /\ kind = "curve"
    /\ args \in {Args(<<>>, a, NoMode, NoMode, s0) : a \in AnchorSet, s0 \in S0Set}
    /\ status = "args"
    /\ err = ""
    /\ log = <<>>
    /\ obj = NoObj
    /\ q = NoQuery

ConstructCurve ==
    /\ status = "args" /\ kind = "curve"
    /\ \E r \in CurveCtor(policy, args.ys, args.s0) : Finish(r)

CurveEval ==
    /\ Queryable
    /\ \E s \in QueryTs(obj) : Answer("eval", <<s>>, "ok", LinearEval(obj, s))

CurveTangent ==
    /\ Queryable
    /\ \E s \in QueryTs(obj) : Answer("tangent", <<s>>, "ok", tangent(obj, s))

LSet == {R(0), R(1)}

CurveEvalLateral ==
    /\ Queryable
    /\ \E s \in QueryTs(obj), l \in LSet :
          \E r \in CurveEvalSL(obj, s, l) : Answer("eval_sl", <<s, l>>, r.out, r.val)

\* inverse of the point the last eval(s, l) returned; q.arg keeps that point
\* followed by the (s, l) it came from
CurveInverse ==
    /\ status = "done" /\ q.op = "eval_sl" /\ q.out = "ok"
    /\ \E r \in inverse(obj, q.val) :
          Answer("inverse", q.val \o q.arg, r.out, r.val)

NextCurve ==
    \/ ConstructCurve
    \/ CurveEval
    \/ CurveTangent
    \/ CurveEvalLateral
    \/ CurveInverse

SpecCurve == InitCurve /\ [][NextCurve]_vars

---------------------------------------------------------------------------
(* Specification SpecSer: boost serialization through a binary archive.    *)
(* The archive is a sequence of tokens.  A floating-point number is stored *)
(* as its representation, a std::vector as its element count followed by   *)
(* its elements, a Vec2 / Vec3 as its components in the order of its       *)
(* serialize function.  Archive headers and class versions are left out.   *)

\* a number stored with its integral part only
save_number_truncated(x) == <<<<"f64", x[1] \div x[2], 1>>>>

save_number(x) == <<<<"f64", x[1], x[2]>>>>

load_number(stream, pos) ==
    [val |-> <<stream[pos][2], stream[pos][3]>>, next |-> pos + 1]

RECURSIVE save_value(_)
\* archive & obj.x; archive & obj.y; (archive & obj.z;)
save_value(v) ==
    IF v = <<>> THEN <<>> ELSE save_number(v[1]) \o save_value(Tail(v))

RECURSIVE load_value(_, _, _)
\* reads dim components from position pos on
load_value(stream, pos, dim) ==
    IF dim = 0 THEN [val |-> <<>>, next |-> pos]
    ELSE LET x == load_number(stream, pos)
             rest == load_value(stream, x.next, dim - 1)
         IN  [val |-> <<x.val>> \o rest.val, next |-> rest.next]

RECURSIVE save_items(_, _)
\* the elements of a vector; dim = 0 for a vector of param_type
save_items(xs, dim) ==
    IF xs = <<>> THEN <<>>
    ELSE (IF dim = 0 THEN save_number(xs[1]) ELSE save_value(xs[1]))
         \o save_items(Tail(xs), dim)

save_vector(xs, dim) == <<<<"count", Len(xs)>>>> \o save_items(xs, dim)

RECURSIVE load_items(_, _, _, _)
load_items(stream, pos, count, dim) ==
    IF count = 0 THEN [val |-> <<>>, next |-> pos]
    ELSE LET x == IF dim = 0 THEN load_number(stream, pos)
                  ELSE load_value(stream, pos, dim)
             rest == load_items(stream, x.next, count - 1, dim)
         IN  [val |-> <<x.val>> \o rest.val, next |-> rest.next]

load_vector(stream, pos, dim) == load_items(stream, pos + 1, stream[pos][2], dim)

\* serialize of the interpolants, writing: m_ts, m_ys, (cubic) m_ddys
SaveFunction(k, o, dim) ==
    save_vector(o.ts, 0) \o save_vector(o.ys, dim)
    \o (IF k = "cubic" THEN save_vector(o.ddys, dim) ELSE <<>>)

\* serialize of the interpolants, reading into a default-constructed object
LoadFunction(k, stream, dim) ==
    LET a == load_vector(stream, 1, 0)
        b == load_vector(stream, a.next, dim)
    IN  [ts |-> a.val, ys |-> b.val,
         ddys |-> IF k = "cubic" THEN load_vector(stream, b.next, dim).val
                  ELSE <<>>]

IsVec(k) == k \in {"vec2", "vec3"}
DimOf(k) == IF k = "vec3" THEN 3 ELSE IF k \in {"vec2", "curve"} THEN 2 ELSE 1

\* oa << a
Save(k, o) == IF IsVec(k) THEN save_value(o) ELSE SaveFunction(k, o, DimOf(k))
\* ia >> b
Load(k, stream) ==
    IF IsVec(k) THEN load_value(stream, 1, DimOf(k)).val
    ELSE LoadFunction(k, stream, DimOf(k))

\* the objects serialized: every interpolant and curve the validated
\* constructors build from the arguments above, and vectors of a few numbers
ComponentSet == {R(-1), R(0), Rat(1, 2), Rat(5097, 4)}

Built(k, a) ==
    IF k = "linear" THEN LinearCtor(1, a.ts, a.ys)
    ELSE IF k = "cubic" THEN CubicCtor(1, a.ts, a.ys, a.b0, a.bf)
    ELSE CurveCtor(1, a.ys, a.s0)

SerArgs(k) ==
    IF k = "curve"
    THEN {Args(<<>>, a, NoMode, NoMode, <<>>) : a \in AnchorSet}
    ELSE {a \in ArgSet(k) : LinearValidation(a.ts, a.ys) = ""}

SerObjects(k) ==
    IF k = "vec2" THEN {<<x, y>> : x \in ComponentSet, y \in ComponentSet}
    ELSE IF k = "vec3"
    THEN {<<x, y, z>> : x \in ComponentSet, y \in ComponentSet, z \in ComponentSet}
    ELSE {r.obj : r \in {r \in UNION {Built(k, a) : a \in SerArgs(k)} :
                            r.status = "done"}}

InitSer ==
    /\ policy = 1
    /\ kind \in {"linear", "cubic", "curve", "vec2", "vec3"}
    /\ args = Args(<<>>, <<>>, NoMode, NoMode, <<>>)
    /\ status = "done"
    /\ err = ""
    /\ log = <<>>
    /\ obj \in SerObjects(kind)
    /\ q = NoQuery

\* oa << obj: log becomes the content of the archive
SaveObject ==
    /\ status = "done"
    /\ status' = "saved"
    /\ log' = Save(kind, obj)
    /\ UNCHANGED <<policy, kind, args, err, obj, q>>

\* ia >> b, with b default-constructed: q.val is b afterwards
LoadObject ==
    /\ status = "saved"
    /\ status' = "loaded"
    /\ q' = [op |-> "load", arg |-> <<>>, out |-> "ok", val |-> Load(kind, log)]
    /\ UNCHANGED <<policy, kind, args, err, log, obj>>

NextSer ==
    \/ SaveObject
    \/ LoadObject

SpecSer == InitSer /\ [][NextSer]_vars

---------------------------------------------------------------------------
(* Specification SpecInt: integral(lower_bound, upper_bound) of the linear *)
(* and the cubic interpolants the validated constructors build, and the    *)
(* second and third derivative of the cubic ones at any parameter.         *)

InitInt ==
    /\ policy = 1
    /\ kind \in {"linear", "cubic"}
    /\ args \in {a \in ArgSet(kind) : LinearValidation(a.ts, a.ys) = ""}
    /\ status = "args"
    /\ err = ""
    /\ log = <<>>
    /\ obj = NoObj
    /\ q = NoQuery

\* the bounds asked: every breakpoint, a parameter inside the segment after
\* it, and parameters before it at a distance below and above the tolerance
IntegralOffsets == {0 - MaxDelta, 0 - (kDuplicateCriterion - 1), 0, 1}

IntegralTs(o) == {RAdd(o.ts[i], R(d)) : i \in 1..Len(o.ts), d \in IntegralOffsets}

Integral ==
    /\ Queryable
    /\ \E a \in IntegralTs(obj), b \in IntegralTs(obj) :
          Answer("integral", <<a, b>>, "ok",
                 IF kind = "linear" THEN LinearIntegral(obj, a, b)
                 ELSE CubicIntegral(obj, a, b))

\* the parameters at which the higher derivatives are asked: those of
\* QueryTs and a parameter half a tick after every breakpoint
DerivativeTs(o) ==
    QueryTs(o) \cup {RAdd(o.ts[i], Rat(1, 2)) : i \in 1..Len(o.ts)}

\* derivative(t, 2) and derivative(t, 3) of the cubic interpolant
HigherDerivative ==
    /\ Queryable /\ kind = "cubic"
    /\ \E t \in DerivativeTs(obj), order \in {2, 3} :
          \E r \in CubicDerivativeOrder(policy, obj, t, order) :
              Answer("derivative_order", <<t, R(order)>>, r.out, r.val)

NextInt ==
    \/ ConstructLinear
    \/ ConstructCubic
    \/ Integral
    \/ HigherDerivative

SpecInt == InitInt /\ [][NextInt]_vars

---------------------------------------------------------------------------
(* Specification SpecConc: several threads query one constructed object.   *)
(* The queries are const member functions of a class without mutable or    *)
(* static members; a query runs in two steps, the lookup of the segment    *)
(* (reading m_ts) and the evaluation on it (reading m_ts, m_ys, m_ddys),   *)
(* and keeps `pos` in an automatic variable of the calling thread.  In     *)
(* this specification q[th] is the query thread th is executing.           *)

NThreads == 2

Threads == 1..NThreads

Idle == [op |-> "none", arg |-> <<>>, pc |-> "idle", pos |-> 0, val |-> <<>>]

\* the objects queried: the longest interpolants and curves of the model
ConcArgs(k) ==
    IF k = "curve"
    THEN {Args(<<>>, a, NoMode, NoMode, <<>>) : a \in {a \in AnchorSet : Len(a) = MaxLen}}
    ELSE {a \in ArgSet(k) : Len(a.ts) = MaxLen /\ a.b0 = NoMode /\ a.bf = NoMode}

InitConc ==
    /\ policy = 1
    /\ kind \in {"linear", "cubic", "curve"}
    /\ args \in {a \in ConcArgs(kind) : \E r \in Built(kind, a) : r.status = "done"}
    /\ status = "done"
    /\ err = ""
    /\ log = <<>>
    /\ obj \in {r.obj : r \in Built(kind, args)}
    /\ q = [th \in Threads |-> Idle]

\* the queries a thread may call on an object of the kind
ConcOps(k) == IF k = "curve" THEN {"eval", "tangent"} ELSE {"eval", "derivative"}

\* the parameters asked: before the first breakpoint, on the second, after
\* the last
ConcTs(o) == {RSub(minT(o), R(MaxDelta)), o.ts[2], RAdd(maxT(o), R(1))}

\* a lookup result kept in one variable shared by all threads
PosOwnerShared(th) == 1

\* `const std::size_t pos` is an automatic variable: the call of thread th
\* reads and writes its own
PosOwner(th) == th

\* the evaluation of a query on the segment position pos
ComputeAt(k, o, op, t, pos) ==
    IF op = "eval"
    THEN (IF k = "cubic" THEN CubicEvalAt(o, t, pos) ELSE LinearEvalAt(o, t, pos))
    ELSE IF op = "derivative"
    THEN (IF k = "cubic" THEN CubicDerivativeAt(o, t, pos)
          ELSE LinearDerivativeAt(o, t, pos))
    ELSE normalized(LinearDerivativeAt(o, t, pos))

\* thread th enters a query and looks the segment up
Locate(th) ==
    /\ status = "done" /\ q[th].pc = "idle"
    /\ \E op \in ConcOps(kind), t \in ConcTs(obj) :
          q' = [[q EXCEPT ![th] = [@ EXCEPT !.op = op, !.arg = <<t>>,
                                            !.pc = "located"]]
                   EXCEPT ![PosOwner(th)].pos =
                              nearestUpperElement(obj.ts, t, tolDefault)]
    /\ UNCHANGED <<policy, kind, args, status, err, log, obj>>

\* thread th evaluates on the segment found and has its result
Compute(th) ==
    /\ q[th].pc = "located"
    /\ q' = [q EXCEPT ![th] =
                [@ EXCEPT !.pc = "returned",
                          !.val = ComputeAt(kind, obj, q[th].op, q[th].arg[1],
                                            q[PosOwner(th)].pos)]]
    /\ UNCHANGED <<policy, kind, args, status, err, log, obj>>

\* the call of thread th returns; the thread may call again
Return(th) ==
    /\ q[th].pc = "returned"
    /\ q' = [q EXCEPT ![th] = Idle]
    /\ UNCHANGED <<policy, kind, args, status, err, log, obj>>

NextConc ==
    \/ \E th \in Threads : Locate(th)
    \/ \E th \in Threads : Compute(th)
    \/ \E th \in Threads : Return(th)

SpecConc == InitConc /\ [][NextConc]_vars

---------------------------------------------------------------------------
(* Specification SpecProxy: Curve2Proxy.  Concrete curves of two variants  *)
(* are built from the same anchors, a proxy of each is put into one        *)
(* container, and the operations of the facade are called through the      *)
(* proxies.  obj[v] is the concrete curve of variant v, log the container. *)
(* The cubic curve is not among the sources: it is taken as the natural    *)
(* cubic interpolant of the anchors over the cumulative chord lengths.     *)

Variants == <<"linear", "cubic">>

\* normal(s) of the linear curve: the set of outcomes [out, val]
CurveNormal(o, s) ==
    LET size == Len(o.ts)
        pos  == nearestUpperElement(o.ts, s, tolDefault)
    IN  IF OutOfRange(FrameAccesses(pos, size)) # {} THEN QueryUndefined
        ELSE IF pos < 2
        THEN {[out |-> "ok",
               val |-> SignedNormal(FrontFrame(o).diff, FrontFrame(o).diff2)]}
        ELSE IF pos = size
        THEN {[out |-> "ok",
               val |-> SignedNormal(BackFrame(o).diff, BackFrame(o).diff2)]}
        ELSE LET f == process(o, pos,
                              RDiv(RSub(s, o.ts[pos]), RSub(o.ts[pos + 1], o.ts[pos])))
             IN  {[out |-> "ok", val |-> SignedNormal(f.diff, f.diff2)]}

\* curvature(s) of the linear curve: quiet_NaN
CurveCurvature(o, s) == <<NonFinite>>

\* PiecewiseCubicCurve(anchor_points): the outcomes of its construction
CubicCurveCtor(p, anchor_points) ==
    LET natural == [order |-> 2, derivative |-> Zero(2)]
        arc == ArcLengths(anchor_points, R(0), Len(anchor_points))
    IN  CubicCtor(p, arc, anchor_points, natural, natural)

Ok(v) == {[out |-> "ok", val |-> v]}

\* the member function `name` of a concrete curve of the variant, called
\* with the argument x: the set of outcomes [out, val]
Member(variant, o, name, x) ==
    IF name = "operator()" \/ name = "eval"
    THEN Ok(IF variant = "cubic" THEN CubicEval(o, x) ELSE LinearEval(o, x))
    ELSE IF name = "tangent"
    THEN Ok(tangent(o, x))
    ELSE IF name = "normal" THEN CurveNormal(o, x)
    ELSE IF name = "curvature" THEN Ok(CurveCurvature(o, x))
    ELSE IF name = "inverse" THEN inverse(o, x)
    ELSE IF name = "minS" THEN Ok(minT(o))
    ELSE IF name = "maxS" THEN Ok(maxT(o))
    ELSE IF name = "front" THEN Ok(front(o))
    ELSE IF name = "back" THEN Ok(back(o))
    ELSE IF name = "arcLengths" THEN Ok(o.ts)
    ELSE Ok(o.ys)

\* the conventions of Curve2Facade, in the order of the facade
Conventions ==
    <<"operator()", "c_eval", "c_tangent", "c_normal", "c_curvature", "c_inverse",
      "c_minS", "c_maxS", "c_front", "c_back", "c_arcLengths", "c_anchorPoints">>

\* a dispatch table in which c_front and c_back name each other's member
MemberNameCrossed(convention) ==
    IF convention = "operator()" THEN "operator()"
    ELSE IF convention = "c_eval" THEN "eval"
    ELSE IF convention = "c_tangent" THEN "tangent"
    ELSE IF convention = "c_normal" THEN "normal"
    ELSE IF convention = "c_curvature" THEN "curvature"
    ELSE IF convention = "c_inverse" THEN "inverse"
    ELSE IF convention = "c_minS" THEN "minS"
    ELSE IF convention = "c_maxS" THEN "maxS"
    ELSE IF convention = "c_front" THEN "back"
    ELSE IF convention = "c_back" THEN "front"
    ELSE IF convention = "c_arcLengths" THEN "arcLengths"
    ELSE "anchorPoints"

\* PRO_DEF_MEM_DISPATCH(c_eval, eval) etc.: the member a convention calls
MemberName(convention) ==
    IF convention = "operator()" THEN "operator()"
    ELSE IF convention = "c_eval" THEN "eval"
    ELSE IF convention = "c_tangent" THEN "tangent"
    ELSE IF convention = "c_normal" THEN "normal"
    ELSE IF convention = "c_curvature" THEN "curvature"
    ELSE IF convention = "c_inverse" THEN "inverse"
    ELSE IF convention = "c_minS" THEN "minS"
    ELSE IF convention = "c_maxS" THEN "maxS"
    ELSE IF convention = "c_front" THEN "front"
    ELSE IF convention = "c_back" THEN "back"
    ELSE IF convention = "c_arcLengths" THEN "arcLengths"
    ELSE "anchorPoints"

\* makeCurve2Proxy(curve2): the proxy owns a curve constructed from the
\* argument (a copy of an lvalue, the moved value of an rvalue)
makeCurve2Proxy(variant, curve2) == [variant |-> variant, held |-> curve2]

\* proxy->convention(x)
Dispatch(proxy, convention, x) ==
    Member(proxy.variant, proxy.held, MemberName(convention), x)

InitProxy ==
    /\ policy = 1
    /\ kind = "proxy"
    /\ args \in {Args(<<>>, a, NoMode, NoMode, <<>>) :
                    a \in {b \in AnchorSet :
                              \A r \in CurveCtor(1, b, <<>>) : r.status = "done"}}
    /\ status = "args"
    /\ err = ""
    /\ log = <<>>
    /\ obj = NoObj
    /\ q = NoQuery

\* the concrete curves: PiecewiseLinearCurve2d{anchors}, PiecewiseCubicCurve2d{anchors}
ConstructCurves ==
    /\ status = "args"
    /\ \E l \in CurveCtor(policy, args.ys, args.s0),
          c \in CubicCurveCtor(policy, args.ys) :
          /\ l.status = "done"
          /\ c.status = "done"
          /\ obj' = [v \in {Variants[i] : i \in 1..Len(Variants)} |->
                        IF v = "linear" THEN l.obj ELSE c.obj]
    /\ status' = "done"
    /\ UNCHANGED <<policy, kind, args, err, log, q>>

\* curves.emplace_back(makeCurve2Proxy(curve)), in the order of Variants
EmplaceProxy ==
    /\ status = "done"
    /\ Len(log) < Len(Variants)
    /\ LET v == Variants[Len(log) + 1]
       IN  log' = Append(log, makeCurve2Proxy(v, obj[v]))
    /\ UNCHANGED <<policy, kind, args, status, err, obj, q>>

\* the members of the variant that the sources or the specification define
\* (the differential members of the cubic curve are not among them)
Defined(variant) ==
    IF variant = "linear" THEN {Conventions[i] : i \in 1..Len(Conventions)}
    ELSE {Conventions[i] : i \in 1..Len(Conventions)}
            \ {"c_tangent", "c_normal", "c_curvature", "c_inverse"}

ProxyPoints(o) == {o.ys[i] : i \in 1..Len(o.ys)} \cup {<<R(1), R(1)>>}

ProxyArgs(convention, o) ==
    IF convention \in {"operator()", "c_eval", "c_tangent", "c_normal", "c_curvature"}
    THEN QueryTs(o)
    ELSE IF convention = "c_inverse" THEN ProxyPoints(o)
    ELSE {<<>>}

\* curves[i]->convention(x)
ProxyCall ==
    /\ status = "done"
    /\ q.op = "none"
    /\ \E i \in 1..Len(log) :
       \E convention \in Defined(log[i].variant) :
       \E x \in ProxyArgs(convention, log[i].held) :
       \E r \in Dispatch(log[i], convention, x) :
          q' = [op |-> convention, arg |-> <<i, x>>, out |-> r.out, val |-> r.val]
    /\ UNCHANGED <<policy, kind, args, status, err, log, obj>>

ProxyReturn ==
    /\ kind = "proxy"
    /\ q.op # "none"
    /\ q' = NoQuery
    /\ UNCHANGED <<policy, kind, args, status, err, log, obj>>

NextProxy == ConstructCurves \/ EmplaceProxy \/ ProxyCall \/ ProxyReturn

SpecProxy == InitProxy /\ [][NextProxy]_vars

---------------------------------------------------------------------------
(* Specification SpecSolve: the two luDcmp functions on diagonally         *)
(* dominant systems.  args is the matrix with its right-hand side, q the   *)
(* call of luDcmp with the returned vector.                                *)

MaxSize == 4

RECURSIVE SeqsOver(_, _)
SeqsOver(S, n) ==
    IF n = 0 THEN {<<>>}
    ELSE {Append(t, e) : t \in SeqsOver(S, n - 1), e \in S}

OffDiagonals == {R(-1), R(2)}
Corners      == {R(0), R(-1), R(2)}
Diagonals    == {R(5), R(-6)}

\* right-hand sides: the unit vectors and the vector 1, 2, .., n
RightHandSides(n) ==
    {[i \in 1..n |-> <<IF i = k THEN R(1) ELSE R(0)>>] : k \in 1..n}
    \cup {[i \in 1..n |-> <<R(i)>>]}

TridiagonalSystems ==
    UNION {{[a_low |-> l, a_diag |-> d, a_up |-> u, b |-> b] :
               l \in SeqsOver(OffDiagonals, n - 1), d \in SeqsOver(Diagonals, n),
               u \in SeqsOver(OffDiagonals, n - 1), b \in RightHandSides(n)} :
           n \in 2..MaxSize}

PeriodicSystems ==
    UNION {{[a_bottom |-> c[1], a_low |-> l, a_diag |-> d, a_up |-> u,
             a_top |-> c[2], b |-> b] :
               c \in {<<x, y>> : x \in Corners, y \in Corners},
               l \in SeqsOver(OffDiagonals, n - 1),
               d \in {<<R(5)>> \o t : t \in SeqsOver(Diagonals, n - 1)},
               u \in SeqsOver(OffDiagonals, n - 1), b \in RightHandSides(n)} :
           n \in 3..(MaxSize - 1)}

InitSolve ==
    /\ policy = 1
    /\ kind \in {"tridiagonal", "periodic"}
    /\ args \in (IF kind = "tridiagonal" THEN TridiagonalSystems ELSE PeriodicSystems)
    /\ status = "args"
    /\ err = ""
    /\ log = <<>>
    /\ obj = NoObj
    /\ q = NoQuery

\* TridiagonalMatrix{a_low, a_diag, a_up}.luDcmp(b)
TridiagonalSolve ==
    /\ kind = "tridiagonal" /\ status = "args"
    /\ q' = [op |-> "luDcmp", arg |-> args.b, out |-> "ok",
             val |-> TridiagonalLuDcmp(args.a_low, args.a_diag, args.a_up, args.b)]
    /\ status' = "done"
    /\ UNCHANGED <<policy, kind, args, err, log, obj>>

\* PeriodicTridiagonalMatrix{a_bottom, a_low, a_diag, a_up, a_top}.luDcmp(b)
PeriodicSolve ==
    /\ kind = "periodic" /\ status = "args"
    /\ q' = [op |-> "luDcmp", arg |-> args.b, out |-> "ok",
             val |-> PeriodicLuDcmp(args.a_bottom, args.a_low, args.a_diag,
                                    args.a_up, args.a_top, args.b)]
    /\ status' = "done"
    /\ UNCHANGED <<policy, kind, args, err, log, obj>>

NextSolve == TridiagonalSolve \/ PeriodicSolve

SpecSolve == InitSolve /\ [][NextSolve]_vars

---------------------------------------------------------------------------
(* Specification SpecInv: the frame queries of PiecewiseLinearCurve<Vec2>  *)
(* (eval(s, l), normal(s), inverse(point), inverse(point, start_s, end_s)) *)
(* on the curves the validated constructor accepts, asked with points on,  *)
(* beside, before and beyond the anchors.                                  *)

InitInv ==
    /\ policy = 1
    /\ kind = "curve"
    /\ args \in {Args(<<>>, a, NoMode, NoMode, <<>>) : a \in AnchorSet}
    /\ status = "args"
    /\ err = ""
    /\ log = <<>>
    /\ obj = NoObj
    /\ q = NoQuery

\* displacements of the asked points from the anchors
PointOffsets ==
    {<<0, 0>>, <<-1, 0>>, <<0, 1>>, <<-3, 0>>, <<3, 4>>, <<-4, 3>>, <<4, -3>>,
     <<-3, -4>>, <<7, 1>>}

PointsAround(o, offsets) ==
    {VAdd(o.ys[i], <<R(d[1]), R(d[2])>>) : i \in 1..Len(o.ys), d \in offsets}

\* arc lengths asked as search bounds: every anchor's, the ones just below
\* them, and one before minS() and one beyond maxS()
BoundSet(o) ==
    {RAdd(o.ts[i], R(d)) : i \in 1..Len(o.ts), d \in {0, 0 - (kDuplicateCriterion - 1)}}
    \cup {RSub(minT(o), R(MaxDelta)), RAdd(maxT(o), R(MaxDelta))}

CurveNormalQuery ==
    /\ Queryable
    /\ \E s \in QueryTs(obj) :
          \E r \in CurveNormal(obj, s) : Answer("normal", <<s>>, r.out, r.val)

CurveInversePoint ==
    /\ Queryable
    /\ \E point \in PointsAround(obj, PointOffsets) :
          \E r \in inverse(obj, point) : Answer("inverse_point", <<point>>, r.out, r.val)

CurveInverseRanged ==
    /\ Queryable
    /\ \E point \in PointsAround(obj, {<<0, 0>>, <<0, 1>>, <<3, 4>>, <<-4, 3>>}),
          start_s \in BoundSet(obj), end_s \in BoundSet(obj) :
          \E r \in inverseRanged(obj, point, start_s, end_s) :
             Answer("inverse_ranged", <<point, start_s, end_s>>, r.out, r.val)

NextInv ==
    \/ ConstructCurve
    \/ CurveEvalLateral
    \/ CurveNormalQuery
    \/ CurveInversePoint
    \/ CurveInverseRanged

SpecInv == InitInv /\ [][NextInv]_vars

---------------------------------------------------------------------------
(* LilMatrix<double, int>.  A matrix is [nrows, ncols, nnzs, rows], rows   *)
(* being m_row_dictionaries: a function from the stored row indices to the *)
(* row dictionaries, each a function from its column indices to values.    *)
(* A Scalar is an integer; only its being 0.0 or not matters.              *)

MaxDim == 2       \* largest nrows / ncols
MaxEntries == 2   \* most entries the matrices of the model hold

NoRows == [r \in {} |-> {}]

\* LilMatrix(nrows, ncols)
LilMatrix(nrows, ncols) ==
    [nrows |-> nrows, ncols |-> ncols, nnzs |-> 0, rows |-> NoRows]

Restrict(f, S) == [x \in S |-> f[x]]

\* unordered_flat_map::emplace of an absent key
Emplace(f, key, value) ==
    [x \in DOMAIN f \cup {key} |-> IF x = key THEN value ELSE f[x]]

RECURSIVE SizeSum(_, _)
\* the sum of row_dictionary.size() over the rows of S
SizeSum(rows, S) ==
    IF S = {} THEN 0
    ELSE LET r == CHOOSE x \in S : TRUE
         IN  Cardinality(DOMAIN rows[r]) + SizeSum(rows, S \ {r})

resize(m, nrows, ncols) ==
    LET kept    == {r \in DOMAIN m.rows : ~(r >= nrows)}
        cut     == [r \in kept |->
                       Restrict(m.rows[r], {c \in DOMAIN m.rows[r] : ~(c >= ncols)})]
        nonempt == {r \in kept : DOMAIN cut[r] # {}}
        rows    == Restrict(cut, nonempt)
    IN  [nrows |-> nrows, ncols |-> ncols,
         nnzs |-> SizeSum(rows, DOMAIN rows), rows |-> rows]

clear(m) == [m EXCEPT !.nnzs = 0, !.rows = NoRows]

reserve(m, capacity) == m

compress(m) == m

coeff(m, row, col) ==
    IF row >= m.nrows \/ col >= m.ncols THEN 0
    ELSE IF row \in DOMAIN m.rows /\ col \in DOMAIN m.rows[row]
    THEN m.rows[row][col]
    ELSE 0

updateCoeff(m, row, col, value) ==
    IF row >= m.nrows \/ col >= m.ncols THEN m
    ELSE IF row \in DOMAIN m.rows
    THEN IF col \in DOMAIN m.rows[row]
         THEN IF value # 0
              THEN [m EXCEPT !.rows[row][col] = value]
              ELSE LET erased == Restrict(m.rows[row], DOMAIN m.rows[row] \ {col})
                   IN  [m EXCEPT
                          !.nnzs = m.nnzs - 1,
                          !.rows = IF DOMAIN erased = {}
                                   THEN Restrict(m.rows, DOMAIN m.rows \ {row})
                                   ELSE [m.rows EXCEPT ![row] = erased]]
         ELSE IF value # 0
              THEN [m EXCEPT !.nnzs = m.nnzs + 1,
                             !.rows[row] = Emplace(m.rows[row], col, value)]
              ELSE m
    ELSE IF value # 0
    THEN [m EXCEPT !.nnzs = m.nnzs + 1,
                   !.rows = Emplace(m.rows, row, Emplace(NoRows, col, value))]
    ELSE m

\* updateRow without the subtraction of the replaced row's size
updateRowKeepCount(m, row, row_dictionary) ==
    IF row >= m.nrows THEN m
    ELSE LET rows == Restrict(m.rows, DOMAIN m.rows \ {row})
             dict == Restrict(row_dictionary,
                              {c \in DOMAIN row_dictionary :
                                  ~(c >= m.ncols \/ row_dictionary[c] = 0)})
         IN  IF DOMAIN dict = {}
             THEN [m EXCEPT !.rows = rows]
             ELSE [m EXCEPT !.nnzs = m.nnzs + Cardinality(DOMAIN dict),
                            !.rows = Emplace(rows, row, dict)]

updateRow(m, row, row_dictionary) ==
    IF row >= m.nrows THEN m
    ELSE LET found == row \in DOMAIN m.rows
             nnzs  == IF found THEN m.nnzs - Cardinality(DOMAIN m.rows[row])
                      ELSE m.nnzs
             rows  == Restrict(m.rows, DOMAIN m.rows \ {row})
             dict  == Restrict(row_dictionary,
                               {c \in DOMAIN row_dictionary :
                                   ~(c >= m.ncols \/ row_dictionary[c] = 0)})
         IN  IF DOMAIN dict = {}
             THEN [m EXCEPT !.nnzs = nnzs, !.rows = rows]
             ELSE [m EXCEPT !.nnzs = nnzs + Cardinality(DOMAIN dict),
                            !.rows = Emplace(rows, row, dict)]

---------------------------------------------------------------------------
(* Specification SpecLil: a LilMatrix under its updates *)

\* the Index arguments: negative, inside and beyond the largest dimension
IndexSet == -1..MaxDim
ValueSet == {0, 1, 2}
DimSet   == 0..MaxDim

\* the row dictionaries passed to updateRow: at most two items
RowDictionaries ==
    {NoRows}
    \cup {Emplace(NoRows, c, v) : c \in IndexSet, v \in ValueSet}
    \cup {Emplace(Emplace(NoRows, p[1], v), p[2], 1) :
             p \in {x \in IndexSet \X IndexSet : x[1] # x[2]}, v \in {0, 1}}

Entries(m) ==
    UNION {{<<r, c>> : c \in DOMAIN m.rows[r]} : r \in DOMAIN m.rows}

InitLil ==
    /\ policy = 1
    /\ kind = "lil"
    /\ args \in {<<nrows, ncols>> : nrows \in DimSet, ncols \in DimSet}
    /\ status = "done"
    /\ err = ""
    /\ log = <<>>
    /\ obj = LilMatrix(args[1], args[2])
    /\ q = NoQuery

\* a call on the matrix; q keeps the name of the last member called
Called(op, m) ==
    /\ kind = "lil"
    /\ Cardinality(Entries(m)) <= MaxEntries
    /\ obj' = m
    /\ q' = [op |-> op, arg |-> <<>>, out |-> "ok", val |-> <<>>]
    /\ UNCHANGED <<policy, kind, args, status, err, log>>

LilUpdateCoeff ==
    /\ status = "done"
    /\ \E row \in IndexSet, col \in IndexSet, value \in ValueSet :
          Called("updateCoeff", updateCoeff(obj, row, col, value))

LilUpdateRow ==
    /\ status = "done"
    /\ \E row \in IndexSet, row_dictionary \in RowDictionaries :
          Called("updateRow", updateRow(obj, row, row_dictionary))

LilResize ==
    /\ status = "done"
    /\ \E nrows \in DimSet, ncols \in DimSet :
          Called("resize", resize(obj, nrows, ncols))

LilClear ==
    /\ status = "done"
    /\ Called("clear", clear(obj))

LilReserve ==
    /\ status = "done"
    /\ \E capacity \in DimSet : Called("reserve", reserve(obj, capacity))

LilCompress ==
    /\ status = "done"
    /\ Called("compress", compress(obj))

NextLil ==
    \/ LilUpdateCoeff
    \/ LilUpdateRow
    \/ LilResize
    \/ LilClear
    \/ LilReserve
    \/ LilCompress

SpecLil == InitLil /\ [][NextLil]_vars

---------------------------------------------------------------------------
(* Specification SpecSettings: cvxopm::Settings<double, int> through a     *)
(* binary archive.  An Index is stored as an integer token, a bool as a    *)
(* boolean token and a Scalar as its representation, written here as the   *)
(* decimal mantissa and exponent of its literal (1E-6 is <<1, -6>>).       *)

Dec(m, e) == <<m, e>>

\* struct Settings: the declared members, in the order of declaration
SettingsFields ==
    <<"device", "linsys_solver",
      "allocate_solution", "verbose", "profiler_level", "warm_starting",
      "scaling", "polishing",
      "rho", "rho_is_vec", "sigma", "alpha",
      "cg_max_iter", "cg_tol_reduction", "cg_tol_fraction", "cg_precond",
      "adaptive_rho", "adaptive_rho_interval", "adaptive_rho_fraction",
      "adaptive_rho_tolerance",
      "max_iter", "eps_abs", "eps_rel", "eps_prim_inf", "eps_dual_inf",
      "scaled_termination", "check_termination", "time_limit",
      "delta", "polish_refine_iter">>

\* the type each member is declared with
FieldType(name) ==
    IF name \in {"device", "linsys_solver", "verbose", "profiler_level",
                 "scaling", "cg_precond", "adaptive_rho_interval", "max_iter",
                 "check_termination", "polish_refine_iter"} THEN "Index"
    ELSE IF name \in {"allocate_solution", "warm_starting", "polishing",
                      "rho_is_vec", "adaptive_rho", "scaled_termination"}
    THEN "bool"
    ELSE "Scalar"

\* Settings{}: the default member initializers
DefaultSettings ==
    [device |-> 0, linsys_solver |-> 1,
     allocate_solution |-> TRUE, verbose |-> 1, profiler_level |-> 0,
     warm_starting |-> TRUE, scaling |-> 10, polishing |-> FALSE,
     rho |-> Dec(1, -1), rho_is_vec |-> TRUE, sigma |-> Dec(1, -6),
     alpha |-> Dec(16, -1),
     cg_max_iter |-> Dec(20, 0), cg_tol_reduction |-> Dec(10, 0),
     cg_tol_fraction |-> Dec(15, -2), cg_precond |-> 1,
     adaptive_rho |-> TRUE, adaptive_rho_interval |-> 0,
     adaptive_rho_fraction |-> Dec(4, -1), adaptive_rho_tolerance |-> Dec(5, 0),
     max_iter |-> 4000, eps_abs |-> Dec(1, -3), eps_rel |-> Dec(1, -3),
     eps_prim_inf |-> Dec(1, -4), eps_dual_inf |-> Dec(1, -4),
     scaled_termination |-> FALSE, check_termination |-> 25,
     time_limit |-> Dec(1, 10),
     delta |-> Dec(1, -6), polish_refine_iter |-> 3]

\* serialize(archive, obj, version): the members named, in the order written
SerializedFields ==
    <<"device", "linsys_solver", "verbose", "warm_starting", "scaling",
      "polishing", "rho", "rho_is_vec", "sigma", "alpha",
      "cg_max_iter", "cg_tol_reduction", "cg_tol_fraction", "cg_precond",
      "adaptive_rho", "adaptive_rho_interval", "adaptive_rho_fraction",
      "adaptive_rho_tolerance",
      "max_iter", "eps_abs", "eps_rel", "eps_prim_inf", "eps_dual_inf",
      "scaled_termination", "check_termination", "time_limit",
      "delta", "polish_refine_iter">>

\* archive & obj.member, saving
save_member(type, x) ==
    IF type = "Scalar" THEN save_number(x) ELSE <<<<type, x>>>>

\* archive & obj.member, loading
load_member(type, stream, pos) ==
    IF type = "Scalar" THEN load_number(stream, pos).val ELSE stream[pos][2]

RECURSIVE SaveMembers(_, _)
SaveMembers(o, names) ==
    IF names = <<>> THEN <<>>
    ELSE save_member(FieldType(names[1]), o[names[1]])
         \o SaveMembers(o, Tail(names))

RECURSIVE LoadMembers(_, _, _, _)
\* reads the members named from position pos on into b
LoadMembers(b, stream, pos, names) ==
    IF names = <<>> THEN b
    ELSE LoadMembers(
             [b EXCEPT ![names[1]] =
                 load_member(FieldType(names[1]), stream, pos)],
             stream, pos + 1, Tail(names))

\* oa << settings
SaveSettings(o) == SaveMembers(o, SerializedFields)

\* ia >> b, with b a default-constructed Settings
LoadSettings(stream) == LoadMembers(DefaultSettings, stream, 1, SerializedFields)

\* a value of the member's type other than its default
Other(name) ==
    LET x == DefaultSettings[name]
    IN  IF FieldType(name) = "Index" THEN x + 2
        ELSE IF FieldType(name) = "bool" THEN ~x
        ELSE Dec(x[1] + 6, x[2] - 1)

MaxChanged == 2

RECURSIVE ChangedSets(_)
\* the sets of at most k member names
ChangedSets(k) ==
    IF k = 0 THEN {{}}
    ELSE LET smaller == ChangedSets(k - 1)
         IN  smaller \cup {S \cup {SettingsFields[i]} :
                              S \in smaller, i \in DOMAIN SettingsFields}

\* Settings objects with up to MaxChanged members set away from the default
SettingsObjects ==
    {[name \in DOMAIN DefaultSettings |->
         IF name \in S THEN Other(name) ELSE DefaultSettings[name]] :
     S \in ChangedSets(MaxChanged)}

InitSettings ==
    /\ policy = 1
    /\ kind = "settings"
    /\ args = Args(<<>>, <<>>, NoMode, NoMode, <<>>)
    /\ status = "done"
    /\ err = ""
    /\ log = <<>>
    /\ obj \in SettingsObjects
    /\ q = NoQuery

\* oa << obj: log becomes the content of the archive
SaveSettingsObject ==
    /\ status = "done"
    /\ status' = "saved"
    /\ log' = SaveSettings(obj)
    /\ UNCHANGED <<policy, kind, args, err, obj, q>>

\* ia >> b, with b default-constructed: q.val is b afterwards
LoadSettingsObject ==
    /\ status = "saved"
    /\ status' = "loaded"
    /\ q' = [op |-> "load", arg |-> <<>>, out |-> "ok", val |-> LoadSettings(log)]
    /\ UNCHANGED <<policy, kind, args, err, log, obj>>

NextSettings ==
    \/ SaveSettingsObject
    \/ LoadSettingsObject

SpecSettings == InitSettings /\ [][NextSettings]_vars

---------------------------------------------------------------------------
(* Properties of the interpolants (specification Spec) *)

\* the arguments satisfy every check of the linear / cubic constructors
Constructed == status = "done" /\ LinearValidation(args.ts, args.ys) = ""

\* two breakpoints lie within the tolerance of each other
WithinTolerance(ts) ==
    \E i, j \in 1..Len(ts) :
        i # j /\ RLe(RAbs(RSub(ts[i], ts[j])), R(kDuplicateCriterion))

\* C1: a linear interpolant whose breakpoints passed the constructor's
\* validation returns ys[i] exactly when evaluated at ts[i], for every i.
C1_EvalAtBreakpoint ==
    (kind = "linear" /\ policy = 1 /\ status = "done" /\ q.op = "eval")
        => \A i \in 1..Len(obj.ts) :
               q.arg[1] = obj.ts[i] => q.val = obj.ys[i]

\* C3: under the validated policy the linear and the cubic (BoundaryMode)
\* constructors throw, and leave no object, exactly when a sequence has
\* fewer than 2 elements, the lengths differ, ts is not sorted, two
\* breakpoints lie within the tolerance of each other, or (cubic) a boundary
\* order is not 1 or 2.
C3_Invalid ==
    \/ Len(args.ts) < 2 \/ Len(args.ys) < 2
    \/ Len(args.ts) # Len(args.ys)
    \/ ~is_sorted(args.ts)
    \/ WithinTolerance(args.ts)
    \/ kind = "cubic" /\ (args.b0.order \notin {1, 2} \/ args.bf.order \notin {1, 2})

C3_ValidatedConstruction ==
    (policy = 1 /\ kind \in {"linear", "cubic"} /\ status # "args")
        => /\ C3_Invalid => (status = "thrown" /\ obj = NoObj)
           /\ ~C3_Invalid => status = "done"

\* C4: under the validated policy the periodic constructor throws whenever
\* |ys.front() - ys.back()| exceeds the tolerance, and never throws for that
\* reason when the difference is at most the tolerance.
C4_FrontBackDiff == RAbs(RSub(args.ys[1][1], args.ys[Len(args.ys)][1]))

C4_PeriodicMismatch ==
    (policy = 1 /\ kind = "periodic" /\ status # "args" /\ Len(args.ys) >= 1)
        => /\ RGt(C4_FrontBackDiff, R(kDuplicateCriterion)) => status = "thrown"
           /\ RLe(C4_FrontBackDiff, R(kDuplicateCriterion)) => err # "periodic"
           /\ err = "periodic" => (status = "thrown" /\ obj = NoObj)

C4_Witness ==
    /\ policy = 1 /\ kind = "periodic" /\ status = "thrown" /\ err = "periodic"
    /\ C4_FrontBackDiff = R(kDuplicateCriterion + 1)

C5_Supported == IF kind = "linear" THEN {1} ELSE {1, 2, 3}

C6_UnvalidatedConstructs ==
    (policy = 0 /\ status # "args") => status = "done"

\* a cubic interpolant built from valid arguments with natural boundaries
NaturalSpline ==
    /\ kind = "cubic" /\ Constructed
    /\ args.b0 = NoMode /\ args.bf = NoMode

\* C14: for a natural cubic spline built from valid arguments,
\* derivative(ts[i], 2) = ddys[i] at every breakpoint, and at an interior
\* breakpoint the second derivative of the segment on the left (ratio 1) and
\* of the segment on the right (ratio 0) are both ddys[i].
C14_SecondDerivativeAtBreakpoints ==
    (NaturalSpline /\ q.op = "derivative_order" /\ q.arg[2] = R(2))
        => /\ q.out = "ok"
           /\ \A i \in 1..Len(obj.ts) :
                 q.arg[1] = obj.ts[i] => q.val = obj.ddys[i]
           /\ \A i \in 2..(Len(obj.ts) - 1) :
                 /\ lerp(obj.ddys[i - 1], obj.ddys[i], R(1)) = obj.ddys[i]
                 /\ lerp(obj.ddys[i], obj.ddys[i + 1], R(0)) = obj.ddys[i]

\* C16: a boundary of order 2 fixes the second derivative at its end:
\* ddys.front() = b0.derivative when b0.order = 2, ddys.back() =
\* bf.derivative when bf.order = 2; the two-argument constructor (both
\* boundaries {2, 0.0}) gives ddys.front() = ddys.back() = 0; ddys has the
\* length of ts.
C16_FixedSecondDerivative ==
    (kind = "cubic" /\ Constructed)
        => /\ Len(obj.ddys) = Len(obj.ts)
           /\ args.b0.order = 2 => obj.ddys[1] = args.b0.derivative
           /\ args.bf.order = 2 => obj.ddys[Len(obj.ddys)] = args.bf.derivative
           /\ (args.b0 = NoMode /\ args.bf = NoMode)
                 => /\ obj.ddys[1] = Zero(1)
                    /\ obj.ddys[Len(obj.ddys)] = Zero(1)

C16_Witness ==
    /\ kind = "cubic" /\ Constructed /\ Len(obj.ts) = MaxLen
    /\ args.b0 = FixedSecond(3) /\ args.bf = FixedSecond(-3)
    /\ obj.ddys[1] = <<R(3)>> /\ obj.ddys[MaxLen] = <<R(-3)>>
    /\ obj.ddys[2] # Zero(1)

\* the continuity equation of the interior breakpoint i (2 <= i <= n - 1,
\* counted from 1) on the stored second derivatives of o
ContinuityAt(o, i) ==
    LET h(j) == RSub(o.ts[j + 1], o.ts[j])
        d(j) == VDiv(VSub(o.ys[j + 1], o.ys[j]), h(j))
    IN  VAdd(VAdd(VScale(o.ddys[i], RMul(R(2), RAdd(h(i), h(i - 1)))),
                  VScale(o.ddys[i + 1], h(i))),
             VScale(o.ddys[i - 1], h(i - 1)))
        = VScale(VSub(d(i), d(i - 1)), R(6))

\* C21: after a non-periodic cubic construction from n >= 3 valid
\* breakpoints the stored second derivatives satisfy, at every interior
\* index i, 2 (h_i + h_{i-1}) ddys[i] + h_i ddys[i+1] + h_{i-1} ddys[i-1]
\* = 6 (d_i - d_{i-1}).
C21_InteriorRows ==
    (kind = "cubic" /\ Constructed /\ Len(obj.ts) >= 3)
        => \A i \in 2..(Len(obj.ts) - 1) : ContinuityAt(obj, i)

\* a spline of the largest size with a clamped and a fixed boundary whose
\* interior second derivatives are not all zero
C21_Witness ==
    /\ kind = "cubic" /\ Constructed /\ Len(obj.ts) = MaxLen
    /\ args.b0.order = 1 /\ args.bf.order = 2
    /\ \A i \in 2..(MaxLen - 1) : ContinuityAt(obj, i) /\ obj.ddys[i] # Zero(1)

\* the validated periodic constructor accepted its arguments
PeriodicAccepted ==
    /\ kind = "periodic" /\ policy = 1 /\ status # "args"
    /\ PeriodicValidation(args.ts, args.ys) = ""

\* C27: for every input the validated periodic constructor accepts, the
\* assembly and luDcmp create only vectors of a non-negative size and stay
\* inside them, and the construction ends with ddys as long as ts and
\* ddys.back() = ddys.front().
C27_PeriodicInBounds ==
    PeriodicAccepted =>
        /\ status = "done"
        /\ Len(obj.ddys) = Len(obj.ts)
        /\ obj.ddys[Len(obj.ddys)] = obj.ddys[1]

\* the same for inputs of at least four breakpoints
C27_PeriodicInBoundsFromFour ==
    (PeriodicAccepted /\ Len(args.ts) >= 4) =>
        /\ status = "done"
        /\ Len(obj.ddys) = Len(obj.ts)
        /\ obj.ddys[Len(obj.ddys)] = obj.ddys[1]

---------------------------------------------------------------------------
(* Properties of the curve (specification SpecCurve) *)

\* s is farther than the lookup tolerance from every arc length of o, so
\* that the snapping of nearestUpperElement plays no part in eval(s, 0)
C2_AwayFromAnchors(o, s) ==
    \A i \in 1..Len(o.ts) : RGt(RAbs(RSub(s, o.ts[i])), R(tolDefault))

\* C2: for a curve of at least 3 anchors (consecutive anchors distinct) and
\* s in [minS, maxS], inverse(eval(s, 0)) returns s within the relative
\* tolerance 1e-3 and a lateral offset of 0.  Stated here for the s away
\* from the anchors, and with the lookup tolerance as additional slack.
C2_InverseOfEval ==
    (policy = 1 /\ q.op = "inverse" /\ Len(obj.ys) >= 3 /\ q.arg[4] = R(0)
     /\ RLe(minT(obj), q.arg[3]) /\ RLe(q.arg[3], maxT(obj))
     /\ C2_AwayFromAnchors(obj, q.arg[3]))
        => /\ q.out = "ok"
           /\ RLe(RAbs(RSub(q.val[1], q.arg[3])),
                  RAdd(RMul(Rat(1, 1000), RAbs(q.arg[3])), R(kDuplicateCriterion)))
           /\ RLe(RAbs(q.val[2]), R(kDuplicateCriterion))

\* C7: under the validated policy a constructor that throws has not yet
\* allocated or computed any derived array.
C7_ThrowBeforeDerivedArrays ==
    (policy = 1 /\ status = "thrown") => log = <<>>

\* C8: the arc lengths of a constructed curve start at s0 (0 when omitted),
\* grow by the distance between consecutive anchors, never decrease, end at
\* maxS, and the anchor points are the constructor's argument.
C8_ArcLengths ==
    (kind = "curve" /\ status = "done")
        => /\ Len(obj.ts) = Len(args.ys)
           /\ obj.ts[1] = S0Of(args.s0)
           /\ minT(obj) = obj.ts[1]
           /\ args.s0 = <<>> => minT(obj) = R(0)
           /\ \A i \in 2..Len(obj.ts) :
                 /\ obj.ts[i] = RAdd(obj.ts[i - 1],
                                     euclideanTo(args.ys[i], args.ys[i - 1]))
                 /\ RLe(obj.ts[i - 1], obj.ts[i])
           /\ maxT(obj) = obj.ts[Len(obj.ts)]
           /\ obj.ys = args.ys
           /\ front(obj) = args.ys[1]
           /\ back(obj) = args.ys[Len(args.ys)]

C8_Witness ==
    /\ kind = "curve" /\ status = "done" /\ policy = 1
    /\ Len(obj.ts) = MaxLen
    /\ args.s0 # <<>>
    /\ maxT(obj) = RAdd(S0Of(args.s0), R(10 + 10 + kDuplicateCriterion))

\* C10: outside [minS, maxS] the curve continues the first / the last
\* segment: eval(minS - d) = front - d * tangent(minS) and
\* eval(maxS + d) = back + d * tangent(maxS), for every d > 0.
C10_Extrapolation ==
    (kind = "curve" /\ status = "done" /\ q.op = "eval")
        => /\ RLt(q.arg[1], minT(obj))
                => q.val = VSub(front(obj),
                                VScale(tangent(obj, minT(obj)),
                                       RSub(minT(obj), q.arg[1])))
           /\ RGt(q.arg[1], maxT(obj))
                => q.val = VAdd(back(obj),
                                VScale(tangent(obj, maxT(obj)),
                                       RSub(q.arg[1], maxT(obj))))

C10_Witness ==
    /\ kind = "curve" /\ status = "done" /\ q.op = "eval"
    /\ q.arg[1] = RAdd(maxT(obj), R(MaxDelta))
    /\ Len(obj.ts) >= 3
    /\ q.val # back(obj)

---------------------------------------------------------------------------
(* Properties of serialization (specification SpecSer) *)

C9_EvalOf(k, o, t) == IF k = "cubic" THEN CubicEval(o, t) ELSE LinearEval(o, t)

\* C9: the archive of an interpolant holds the breakpoints, then the
\* samples, then (cubic) the second derivatives; loading it into a
\* default-constructed object gives equal sequences and so the same eval at
\* every original breakpoint; a Vec2 / Vec3 comes back with every component.
C9_RoundTrip ==
    /\ (status \in {"saved", "loaded"} /\ ~IsVec(kind))
          => log = save_vector(obj.ts, 0) \o save_vector(obj.ys, DimOf(kind))
                   \o (IF kind = "cubic" THEN save_vector(obj.ddys, 1) ELSE <<>>)
    /\ (status = "loaded" /\ ~IsVec(kind))
          => /\ q.val.ts = obj.ts /\ q.val.ys = obj.ys /\ q.val.ddys = obj.ddys
             /\ \A i \in 1..Len(obj.ts) :
                    C9_EvalOf(kind, q.val, obj.ts[i]) = C9_EvalOf(kind, obj, obj.ts[i])
    /\ (status = "loaded" /\ IsVec(kind))
          => /\ Len(q.val) = DimOf(kind)
             /\ \A i \in 1..DimOf(kind) : q.val[i] = obj[i]

C9_Witness ==
    /\ status = "loaded" /\ kind = "cubic"
    /\ Len(obj.ts) = MaxLen
    /\ \E i \in 1..Len(obj.ddys) : obj.ddys[i][1][2] > 1
    /\ q.val = obj

---------------------------------------------------------------------------
(* Properties of the integrals (specification SpecInt) *)

IntegralOf(o, a, b) ==
    IF kind = "linear" THEN LinearIntegral(o, a, b) ELSE CubicIntegral(o, a, b)

\* C11: integral(a, b) = -integral(b, a) for all bounds a, b, and
\* integral(a, a) = 0, for the linear and the cubic interpolant.
C11_IntegralSign ==
    (q.op = "integral")
        => /\ q.val = VScale(IntegralOf(obj, q.arg[2], q.arg[1]), R(-1))
           /\ q.arg[1] = q.arg[2] => q.val = Zero(Len(obj.ys[1]))

C11_Witness ==
    /\ q.op = "integral" /\ kind = "cubic" /\ Len(obj.ts) = MaxLen
    /\ RGt(q.arg[1], q.arg[2])
    /\ RLt(q.arg[2], minT(obj)) /\ RGt(q.arg[1], maxT(obj))
    /\ q.val # Zero(1)

\* the pieces of [a, b]: a, the breakpoints strictly between a and b, b
PieceEnds(o, a, b) ==
    <<a>> \o SelectSeq(o.ts, LAMBDA t : RLt(a, t) /\ RLt(t, b)) \o <<b>>

\* the sum of (eval(l) + eval(r)) * (r - l) / 2 over the pieces of [a, b]
C12_TrapezoidSum(o, a, b) ==
    LET e == PieceEnds(o, a, b)
    IN  VSum([j \in 1..(Len(e) - 1) |->
                 Trapezoid(LinearEval(o, e[j]), LinearEval(o, e[j + 1]),
                           RSub(e[j + 1], e[j]))], Len(o.ys[1]))

C12_Sum ==
    (q.op = "integral" /\ kind = "linear" /\ RLe(q.arg[1], q.arg[2]))
        => q.val = C12_TrapezoidSum(obj, q.arg[1], q.arg[2])

C12_Additive ==
    (q.op = "integral" /\ kind = "linear" /\ RLe(q.arg[1], q.arg[2]))
        => \A c \in IntegralTs(obj) :
               (RLe(q.arg[1], c) /\ RLe(c, q.arg[2]))
                   => q.val = VAdd(LinearIntegral(obj, q.arg[1], c),
                                   LinearIntegral(obj, c, q.arg[2]))

\* C12: for a linear interpolant and a <= b, integral(a, b) is the sum of the
\* trapezoids (eval(l) + eval(r)) * (r - l) / 2 over the pieces [l, r] cut
\* out of [a, b] by the breakpoints strictly between a and b, and
\* integral(a, c) + integral(c, b) = integral(a, b) for a <= c <= b.
C12_TrapezoidRule == C12_Sum /\ C12_Additive

\* every two consecutive breakpoints are more than the tolerance apart
SpacedOut(o) ==
    \A i \in 1..(Len(o.ts) - 1) :
        RGt(RSub(o.ts[i + 1], o.ts[i]), R(kDuplicateCriterion))

\* the sum of h * (y_l + y_r) / 2 - h^3 * (y''_l + y''_r) / 24 over the
\* pieces of [a, b], with y = eval and y'' = derivative(., 2) at the piece ends
C13_AntiderivativeSum(o, a, b) ==
    LET e == PieceEnds(o, a, b)
        h(j) == RSub(e[j + 1], e[j])
    IN  VSum([j \in 1..(Len(e) - 1) |->
                 VSub(VScale(VAdd(CubicEval(o, e[j]), CubicEval(o, e[j + 1])),
                             RDiv(h(j), R(2))),
                      VScale(VAdd(derivative2(o, e[j]), derivative2(o, e[j + 1])),
                             RDiv(RMul(RMul(h(j), h(j)), h(j)), R(24))))],
             Len(o.ys[1]))

C13_Sum ==
    (q.op = "integral" /\ kind = "cubic" /\ RLe(q.arg[1], q.arg[2]))
        => q.val = C13_AntiderivativeSum(obj, q.arg[1], q.arg[2])

C13_Additive ==
    (q.op = "integral" /\ kind = "cubic" /\ RLe(q.arg[1], q.arg[2]))
        => \A c \in IntegralTs(obj) :
               (RLe(q.arg[1], c) /\ RLe(c, q.arg[2]))
                   => q.val = VAdd(CubicIntegral(obj, q.arg[1], c),
                                   CubicIntegral(obj, c, q.arg[2]))

\* C13: for a cubic interpolant and a <= b, integral(a, b) is the sum of the
\* closed-form antiderivatives h * (y_l + y_r) / 2 - h^3 * (y''_l + y''_r) / 24
\* over the pieces cut out of [a, b] by the breakpoints, wherever a and b
\* lie, and integral(a, c) + integral(c, b) = integral(a, b) for a <= c <= b.
C13_ClosedForm == C13_Sum /\ C13_Additive

---------------------------------------------------------------------------
(* Properties of the higher derivatives (specification SpecInt) *)

HigherDerivativeAsked ==
    kind = "cubic" /\ q.op = "derivative_order" /\ q.arg[2] \in {R(2), R(3)}

\* derivative(t, 2) and derivative(t, 3) are exactly 0 for t more than the
\* tolerance below minT or above maxT
C15_ZeroOutside ==
    HigherDerivativeAsked
        => ((RLt(q.arg[1], RSub(minT(obj), R(tolDefault)))
             \/ RGt(q.arg[1], RAdd(maxT(obj), R(tolDefault))))
                => q.val = Zero(Len(obj.ys[1])))

\* the values the claim gives on the segment [ts[k], ts[k + 1]]
C15_OnSegment(o, k, t, order) ==
    IF order = R(3)
    THEN VDiv(VSub(o.ddys[k + 1], o.ddys[k]), RSub(o.ts[k + 1], o.ts[k]))
    ELSE lerp(o.ddys[k], o.ddys[k + 1],
              RDiv(RSub(t, o.ts[k]), RSub(o.ts[k + 1], o.ts[k])))

\* C15 as stated: 0 outside, and for every t inside a segment
\* (ts[k] < t < ts[k + 1]) derivative(t, 3) is the difference quotient of
\* ddys over the segment and derivative(t, 2) the linear interpolation of
\* ddys[k], ddys[k + 1].
C15_HigherDerivatives ==
    /\ C15_ZeroOutside
    /\ HigherDerivativeAsked
          => \A k \in 1..(Len(obj.ts) - 1) :
                 (RLt(obj.ts[k], q.arg[1]) /\ RLt(q.arg[1], obj.ts[k + 1]))
                     => q.val = C15_OnSegment(obj, k, q.arg[1], q.arg[2])

\* C15, amended: 0 outside, and the segment values for every t with
\* ts[k] <= t and t + tolerance < ts[k + 1].
C15_HigherDerivativesBelowTolerance ==
    /\ C15_ZeroOutside
    /\ HigherDerivativeAsked
          => \A k \in 1..(Len(obj.ts) - 1) :
                 (RLe(obj.ts[k], q.arg[1])
                  /\ RLt(RAdd(q.arg[1], R(tolDefault)), obj.ts[k + 1]))
                     => q.val = C15_OnSegment(obj, k, q.arg[1], q.arg[2])

C15_Witness ==
    /\ HigherDerivativeAsked /\ q.arg[2] = R(3) /\ Len(obj.ts) = MaxLen
    /\ RLt(obj.ts[2], q.arg[1])
    /\ RLt(RAdd(q.arg[1], R(tolDefault)), obj.ts[3])
    /\ q.val = C15_OnSegment(obj, 2, q.arg[1], q.arg[2])
    /\ q.val # Zero(1)

---------------------------------------------------------------------------
(* Properties of concurrent queries (specification SpecConc) *)

\* what the query returns when it is executed alone
Sequential(k, o, op, t) ==
    IF op = "eval" THEN (IF k = "cubic" THEN CubicEval(o, t) ELSE LinearEval(o, t))
    ELSE IF op = "derivative"
    THEN (IF k = "cubic" THEN CubicDerivative(o, t) ELSE LinearDerivative(o, t))
    ELSE tangent(o, t)

---------------------------------------------------------------------------
(* Properties of the proxy (specification SpecProxy) *)

\* the operation of the facade called on a concrete curve directly
OnCurve(variant, o, op, x) ==
    CASE op = "operator()"    -> Member(variant, o, "operator()", x)
      [] op = "c_eval"        -> Member(variant, o, "eval", x)
      [] op = "c_tangent"     -> Member(variant, o, "tangent", x)
      [] op = "c_normal"      -> Member(variant, o, "normal", x)
      [] op = "c_curvature"   -> Member(variant, o, "curvature", x)
      [] op = "c_inverse"     -> Member(variant, o, "inverse", x)
      [] op = "c_minS"        -> Member(variant, o, "minS", x)
      [] op = "c_maxS"        -> Member(variant, o, "maxS", x)
      [] op = "c_front"       -> Member(variant, o, "front", x)
      [] op = "c_back"        -> Member(variant, o, "back", x)
      [] op = "c_arcLengths"  -> Member(variant, o, "arcLengths", x)
      [] op = "c_anchorPoints" -> Member(variant, o, "anchorPoints", x)

---------------------------------------------------------------------------
(* Properties of the solvers (specification SpecSolve) *)

\* the left-hand side of row i of the system m at x; the corner terms are
\* those of the periodic matrix, absent from the tridiagonal one
RowAt(m, x, i, top, bottom) ==
    LET n == Len(m.a_diag)
        lower == IF i > 1 THEN RMul(m.a_low[i - 1], x[i - 1][1]) ELSE R(0)
        upper == IF i < n THEN RMul(m.a_up[i], x[i + 1][1]) ELSE R(0)
        wrap  == IF i = 1 THEN RMul(top, x[n][1])
                 ELSE IF i = n THEN RMul(bottom, x[1][1]) ELSE R(0)
    IN  RAdd(RAdd(RAdd(lower, RMul(m.a_diag[i], x[i][1])), upper), wrap)

DiagonallyDominant(m, top, bottom) ==
    LET n == Len(m.a_diag)
    IN  \A i \in 1..n :
            RLt(RAdd(RAdd(IF i > 1 THEN RAbs(m.a_low[i - 1]) ELSE R(0),
                          IF i < n THEN RAbs(m.a_up[i]) ELSE R(0)),
                     IF i = 1 THEN RAbs(top)
                     ELSE IF i = n THEN RAbs(bottom) ELSE R(0)),
                RAbs(m.a_diag[i]))

Solved(k) == kind = k /\ status = "done" /\ q.op = "luDcmp"

\* C19: for a diagonally dominant tridiagonal matrix of size n >= 2,
\* luDcmp(b) returns a vector of length n that satisfies every row of the
\* system.
C19_TridiagonalSolves ==
    (Solved("tridiagonal") /\ Len(args.a_diag) >= 2
         /\ DiagonallyDominant(args, R(0), R(0))) =>
        /\ Len(q.val) = Len(args.a_diag)
        /\ \A i \in 1..Len(args.a_diag) :
               RowAt(args, q.val, i, R(0), R(0)) = args.b[i][1]

\* a system of the largest size solved with every unknown different from 0
C19_Witness ==
    /\ Solved("tridiagonal")
    /\ Len(args.a_diag) = MaxSize
    /\ DiagonallyDominant(args, R(0), R(0))
    /\ \A i \in 1..MaxSize : Finite(q.val[i][1]) /\ q.val[i][1] # R(0)

\* C20: for a diagonally dominant periodic system of size n >= 3,
\* luDcmp(b) returns a vector of length n that satisfies every row, the
\* first and the last with their corner terms.
C20_PeriodicSolves ==
    (Solved("periodic") /\ Len(args.a_diag) >= 3
         /\ DiagonallyDominant(args, args.a_top, args.a_bottom)) =>
        /\ Len(q.val) = Len(args.a_diag)
        /\ \A i \in 1..Len(args.a_diag) :
               RowAt(args, q.val, i, args.a_top, args.a_bottom) = args.b[i][1]

---------------------------------------------------------------------------
(* Properties of the frame queries (specification SpecInv) *)

\* the index (from 1) of the nearest anchor, the lowest among equidistant ones
NearestAnchor(o, point) ==
    LET d2(i) == euclideanSqr(VSub(point, o.ys[i]))
    IN  CHOOSE k \in 1..Len(o.ys) :
            /\ \A j \in 1..Len(o.ys) : RLe(d2(k), d2(j))
            /\ \A j \in 1..(k - 1) : RGt(d2(j), d2(k))

\* the segment (index of its first anchor, from 1) the claim assigns
SegmentFor(o, point) ==
    LET n == Len(o.ys)
        k == NearestAnchor(o, point)
    IN  IF k = 1 THEN 1
        ELSE IF k = n THEN n - 1
        ELSE IF RLt(dot(VSub(o.ys[k + 1], o.ys[k]), VSub(point, o.ys[k])),
                    R(0 - tolDefault))
        THEN k - 1 ELSE k

\* s of the projection of point on the line of segment j
ProjectionOn(o, j, point) ==
    RAdd(o.ts[j], dot(VSub(point, o.ys[j]), normalized(VSub(o.ys[j + 1], o.ys[j]))))

\* C22: inverse(point) projects on the segment after the nearest anchor k
\* unless the dot product of that segment with point - anchor[k] is below
\* -1e-8, in which case it projects on the segment before; the first
\* segment for k = 0, the last for k = n - 1.
C22_SegmentChoice ==
    (kind = "curve" /\ q.op = "inverse_point")
        => /\ q.out = "ok"
           /\ q.val[1] = ProjectionOn(obj, SegmentFor(obj, q.arg[1]), q.arg[1])

\* the same on curves of at least three anchors
C22_SegmentChoiceFromThree ==
    (kind = "curve" /\ q.op = "inverse_point" /\ Len(obj.ys) >= 3)
        => /\ q.out = "ok"
           /\ q.val[1] = ProjectionOn(obj, SegmentFor(obj, q.arg[1]), q.arg[1])

\* d_j: the unit-speed difference of segment j (from 1)
UnitDiff(o, j) == VDiv(VSub(o.ys[j + 1], o.ys[j]), RSub(o.ts[j + 1], o.ts[j]))

\* the normal the rule gives segment j: diff2 from the next pair on the
\* first segment, from the previous pair on every later one; -1 on a tie
NormalOfSegment(o, j) ==
    LET diff  == VSub(o.ys[j + 1], o.ys[j])
        diff2 == IF j = 1 THEN VSub(UnitDiff(o, 2), UnitDiff(o, 1))
                 ELSE VSub(UnitDiff(o, j), UnitDiff(o, j - 1))
        unit  == VDiv(rotateHalfPi(diff), euclidean(diff))
    IN  IF RGt(crossProj(diff, diff2), R(0)) THEN unit ELSE VScale(unit, R(-1))

\* the segment s lies in: the first one before minS(), the last one from
\* maxS() on
SegmentOf(o, s) ==
    LET n == Len(o.ts)
    IN  IF RLt(s, o.ts[1]) THEN 1
        ELSE IF RLe(o.ts[n], s) THEN n - 1
        ELSE CHOOSE k \in 1..(n - 1) : RLe(o.ts[k], s) /\ RLt(s, o.ts[k + 1])

\* s is not within the lookup tolerance below the end of its segment
ClearOfNext(o, s) ==
    LET k == SegmentOf(o, s)
    IN  \/ RLt(s, o.ts[1])
        \/ RLe(o.ts[Len(o.ts)], s)
        \/ RLt(RAdd(s, R(tolDefault)), o.ts[k + 1])

\* the point of the line of segment j at arc length s
PointOn(o, j, s) ==
    VAdd(o.ys[j], VScale(UnitDiff(o, j), RSub(s, o.ts[j])))

\* what the rule requires of the answered query on a curve of at least
\* three anchors, for the arc lengths s that satisfy Where(obj, s)
NormalRule(Where(_, _)) ==
    (kind = "curve" /\ Len(obj.ys) >= 3) =>
        /\ (q.op = "normal" /\ Where(obj, q.arg[1])) =>
              /\ q.out = "ok"
              /\ q.val = NormalOfSegment(obj, SegmentOf(obj, q.arg[1]))
              /\ euclideanSqr(q.val) = R(1)
              /\ dot(q.val, tangent(obj, q.arg[1])) = R(0)
        /\ (q.op = "eval_sl" /\ Where(obj, q.arg[1])) =>
              /\ q.out = "ok"
              /\ q.val = VAdd(PointOn(obj, SegmentOf(obj, q.arg[1]), q.arg[1]),
                              VScale(NormalOfSegment(obj, SegmentOf(obj, q.arg[1])),
                                     q.arg[2]))
        /\ q.op = "inverse_point" =>
              /\ q.out = "ok"
              /\ LET j == SegmentFor(obj, q.arg[1])
                 IN  q.val[2] = dot(VSub(q.arg[1], obj.ys[j]), NormalOfSegment(obj, j))

Anywhere(o, s) == TRUE

LeftBounds == q.out \in {r.out : r \in QueryUndefined}

\* C24: on every curve the validated constructor accepts, of two anchors
\* or more, eval(s, l), normal(s) and inverse(point) read anchor_points and
\* arc_lengths only inside their bounds.
C24_FrameQueriesInBounds ==
    (kind = "curve" /\ policy = 1
        /\ q.op \in {"eval_sl", "normal", "inverse_point"}) => ~LeftBounds

\* the same on curves of at least three anchors
C24_InBoundsFromThree ==
    (kind = "curve" /\ policy = 1 /\ Len(obj.ys) >= 3
        /\ q.op \in {"eval_sl", "normal", "inverse_point"}) => ~LeftBounds

\* C25: on a curve of n >= 3 anchors, inverse(point, start_s, end_s) with
\* any bounds, in either order, computes 0 <= istart < iend <= n and reads
\* anchor_points and arc_lengths only inside their bounds.
C25_RangedInverseInBounds ==
    (kind = "curve" /\ q.op = "inverse_ranged" /\ Len(obj.ys) >= 3) =>
        LET bnd == InverseBounds(obj, q.arg[2], q.arg[3])
        IN  /\ 0 <= bnd.istart
            /\ bnd.istart < bnd.iend
            /\ bnd.iend <= Len(obj.ys)
            /\ ~LeftBounds

\* the search bounds alone, for bounds not below minS() - 1e-8
C25_BoundsFromMinS ==
    (kind = "curve" /\ q.op = "inverse_ranged" /\ Len(obj.ys) >= 3
        /\ RLt(RSub(minT(obj), R(tolDefault)), q.arg[2])
        /\ RLt(RSub(minT(obj), R(tolDefault)), q.arg[3])) =>
        LET bnd == InverseBounds(obj, q.arg[2], q.arg[3])
        IN  0 <= bnd.istart /\ bnd.istart < bnd.iend /\ bnd.iend <= Len(obj.ys)

\* the reads, for bounds not below minS() - 1e-8
C25_ReadsFromMinS ==
    (kind = "curve" /\ q.op = "inverse_ranged" /\ Len(obj.ys) >= 3
        /\ RLt(RSub(minT(obj), R(tolDefault)), q.arg[2])
        /\ RLt(RSub(minT(obj), R(tolDefault)), q.arg[3])) => ~LeftBounds

\* C26: on a curve of n >= 4 anchors, inverse(point, minS(), maxS())
\* returns what inverse(point) returns.
C26_WholeRange ==
    (kind = "curve" /\ q.op = "inverse_ranged" /\ Len(obj.ys) >= 4
        /\ q.arg[2] = minT(obj) /\ q.arg[3] = maxT(obj)) =>
        /\ q.out = "ok"
        /\ [out |-> q.out, val |-> q.val] \in inverse(obj, q.arg[1])

\* the same for the points whose nearest anchor is not among the last two
C26_WholeRangeEarlyAnchors ==
    (kind = "curve" /\ q.op = "inverse_ranged" /\ Len(obj.ys) >= 4
        /\ q.arg[2] = minT(obj) /\ q.arg[3] = maxT(obj)
        /\ NearestAnchor(obj, q.arg[1]) < Len(obj.ys) - 1) =>
        /\ q.out = "ok"
        /\ [out |-> q.out, val |-> q.val] \in inverse(obj, q.arg[1])

---------------------------------------------------------------------------
(* Properties of LilMatrix (specification SpecLil) *)

\* C28: after any sequence of updateCoeff, updateRow, resize, clear,
\* reserve and compress calls on LilMatrix(nrows, ncols), nnzs() is the
\* number of (row, col) entries stored over all row dictionaries.
C28_CountInvariant ==
    kind = "lil" => obj.nnzs = Cardinality(Entries(obj))

\* a row of two entries has just replaced a row, another row is stored
C28_Witness ==
    /\ kind = "lil" /\ q.op = "updateRow"
    /\ obj.nnzs = MaxEntries
    /\ \E r \in DOMAIN obj.rows : Cardinality(DOMAIN obj.rows[r]) = 2

\* C29: every stored entry has 0 <= row < nrows(), 0 <= col < ncols() and a
\* non-zero value, and no stored row dictionary is empty.
C29_WellFormed ==
    kind = "lil" =>
        \A r \in DOMAIN obj.rows :
            /\ 0 <= r /\ r < obj.nrows
            /\ DOMAIN obj.rows[r] # {}
            /\ \A c \in DOMAIN obj.rows[r] :
                  0 <= c /\ c < obj.ncols /\ obj.rows[r][c] # 0

\* the same without the lower bounds of row and col
C29_WellFormedAbove ==
    kind = "lil" =>
        \A r \in DOMAIN obj.rows :
            /\ r < obj.nrows
            /\ DOMAIN obj.rows[r] # {}
            /\ \A c \in DOMAIN obj.rows[r] : c < obj.ncols /\ obj.rows[r][c] # 0

---------------------------------------------------------------------------
(* Properties of Settings serialization (specification SpecSettings) *)

\* the loaded object and the saved one agree in the member
SameMember(name) == q.val[name] = obj[name]

\* C30: serializing a Settings object and deserializing the stream into a
\* default-constructed Settings yields an object equal to the original in
\* every declared member of the struct.
C30_SettingsRoundTrip ==
    (kind = "settings" /\ status = "loaded")
        => \A i \in DOMAIN SettingsFields : SameMember(SettingsFields[i])

\* the members serialize names come back as they were saved
C30_SerializedRoundTrip ==
    (kind = "settings" /\ status = "loaded")
        => \A i \in DOMAIN SerializedFields : SameMember(SerializedFields[i])

\* the two members serialize does not name come back with their defaults
C30_OmittedKeepDefault ==
    (kind = "settings" /\ status = "loaded")
        => /\ q.val.allocate_solution = DefaultSettings.allocate_solution
           /\ q.val.profiler_level = DefaultSettings.profiler_level

====
